---- MODULE Spec2Model ----
(***************************************************************************)
(* A model of rust/arrow/src/array.rs: the typed array views over untyped  *)
(* data containers (ArrayData), their construction from containers and     *)
(* from host collections, and their value accessors.                       *)
(*                                                                         *)
(* Memory is modelled at byte level: a Buffer is a start address (modulo   *)
(* 8, which is all the alignment checks look at) and a sequence of bytes.  *)
(* A raw pointer (RawPtrBox) is modelled by the memory region it points    *)
(* into.  A read outside the region is undefined behaviour and yields a    *)
(* value chosen by the environment (the junk parameter of the readers).    *)
(*                                                                         *)
(* All integers of the model stay far below 2^31, so the casts of the      *)
(* source between usize, isize and i32 preserve every value that occurs.   *)
(***************************************************************************)
EXTENDS Integers, Sequences, FiniteSets, TLC

VARIABLES
    call,   \* the last constructor call: its name and its inputs
    arr,    \* what that call produced: an array, or a panic
    ret     \* the last accessor call on arr and its outcome

vars == <<call, arr, ret>>

(***************************************************************************)
(* Bounds of the model.                                                    *)
(***************************************************************************)
MaxLen == 2        \* largest logical length recorded on a generated container
MaxOffset == 1     \* largest logical offset recorded on a generated container
MaxBufElems == 3   \* largest number of native elements in a generated buffer
MaxBufs == 3       \* largest number of buffers on a generated container

(***************************************************************************)
(* Generic helpers.                                                        *)
(***************************************************************************)
SeqsUpTo(S, n) == UNION {[1..k -> S] : k \in 0..n}

RECURSIVE Pow2(_)
Pow2(k) == IF k = 0 THEN 1 ELSE 2 * Pow2(k - 1)

\* Option<X>: the empty sequence is None, a one-element sequence is Some.
None == <<>>
Some(x) == <<x>>
IsSome(o) == o # <<>>
Unwrap(o) == o[1]

(***************************************************************************)
(* Logical types (crate::datatypes::DataType): a tag and its arguments.    *)
(***************************************************************************)
T(tag) == [tag |-> tag, args |-> <<>>]
List(e) == [tag |-> "List", args |-> <<e>>]
Struct(fields) == [tag |-> "Struct", args |-> fields]
Timestamp(unit) == [tag |-> "Timestamp", args |-> <<T(unit)>>]
Date32 == [tag |-> "Date32", args |-> <<T("Day")>>]
Date64 == [tag |-> "Date64", args |-> <<T("Millisecond")>>]
Time32(unit) == [tag |-> "Time32", args |-> <<T(unit)>>]
Time64(unit) == [tag |-> "Time64", args |-> <<T(unit)>>]
Interval(unit) == [tag |-> "Interval", args |-> <<T(unit)>>]

SignedTags == {"Int8", "Int16", "Int32", "Int64"}
UnsignedTags == {"UInt8", "UInt16", "UInt32", "UInt64"}
FloatTags == {"Float32", "Float64"}
NumericTags == SignedTags \cup UnsignedTags \cup FloatTags

\* mem::size_of::<T::Native>() in bytes; align_of is the same on the
\* targets the crate builds for.  bool is one byte.
SizeOf(tag) ==
    CASE tag \in {"Boolean", "Int8", "UInt8"} -> 1
      [] tag \in {"Int16", "UInt16"} -> 2
      [] tag \in {"Int32", "UInt32", "Float32", "Date32", "Time32"} -> 4
      [] OTHER -> 8

AlignOf(tag) == SizeOf(tag)

(***************************************************************************)
(* Native values and their bytes (ToByteSlice, little endian, two's        *)
(* complement).  A float is represented by its bit pattern.                *)
(***************************************************************************)
RECURSIVE ToBytes(_, _)
ToBytes(v, w) == IF w = 0 THEN <<>> ELSE <<v % 256>> \o ToBytes(v \div 256, w - 1)

RECURSIVE FromBytesUnsigned(_)
FromBytesUnsigned(bs) ==
    IF bs = <<>> THEN 0
    ELSE bs[1] + 256 * FromBytesUnsigned(Tail(bs))

FromBytesSigned(bs) ==
    IF bs[Len(bs)] >= 128
    THEN -(1 + FromBytesUnsigned([k \in DOMAIN bs |-> 255 - bs[k]]))
    ELSE FromBytesUnsigned(bs)

FromBytes(tag, bs) ==
    IF tag \in UnsignedTags \cup FloatTags
    THEN FromBytesUnsigned(bs)
    ELSE FromBytesSigned(bs)

RECURSIVE SliceToBytes(_, _)
SliceToBytes(vals, w) ==
    IF vals = <<>> THEN <<>>
    ELSE ToBytes(Head(vals), w) \o SliceToBytes(Tail(vals), w)

(***************************************************************************)
(* crate::buffer::Buffer and crate::memory.                                *)
(***************************************************************************)
Buffer(addr, bytes) == [addr |-> addr, bytes |-> bytes]

\* Buffer::from(slice): a fresh allocation, which is 64-byte aligned.
BufferFrom(bytes) == Buffer(0, bytes)

\* Buffer::slice(n): the same storage seen from n bytes further on.
BufferSlice(b, n) == Buffer((b.addr + n) % 8, SubSeq(b.bytes, n + 1, Len(b.bytes)))

is_aligned(addr, alignment) == addr % alignment = 0

(***************************************************************************)
(* crate::util::bit_util: bit i of a byte sequence is bit (i mod 8),       *)
(* counted from the least significant one, of byte (i div 8).              *)
(***************************************************************************)
ceil(value, divisor) ==
    IF value % divisor = 0 THEN value \div divisor ELSE value \div divisor + 1

BitOfByte(byte, k) == (byte \div Pow2(k)) % 2 = 1

get_bit(bytes, i) == BitOfByte(bytes[(i \div 8) + 1], i % 8)

set_bit(bytes, i) ==
    IF get_bit(bytes, i) THEN bytes
    ELSE [bytes EXCEPT ![(i \div 8) + 1] = @ + Pow2(i % 8)]

\* get_bit_raw reads through a raw pointer: outside the region the outcome
\* is the environment's.
get_bit_raw(buf, i, junk) ==
    IF i \div 8 < Len(buf.bytes) THEN get_bit(buf.bytes, i) ELSE junk

count_set_bits_offset(bytes, offset) ==
    Cardinality({i \in offset..(8 * Len(bytes) - 1) : get_bit(bytes, i)})

\* MutableBuffer::new(n).with_bitset(n, false)
ZeroBytes(n) == [k \in 1..n |-> 0]

(***************************************************************************)
(* crate::array_data::ArrayData and its builder.                           *)
(***************************************************************************)
\* ArrayDataBuilder::build: the null count, when the caller gives none, is
\* counted from the validity bitmap (0 without a bitmap).
ArrayDataBuild(data_type, len, null_count, null_bit_buffer, offset, buffers, child_data) ==
    [data_type |-> data_type,
     len |-> len,
     offset |-> offset,
     null_count |->
        IF IsSome(null_count) THEN Unwrap(null_count)
        ELSE IF IsSome(null_bit_buffer)
             THEN len - count_set_bits_offset(Unwrap(null_bit_buffer).bytes, offset)
             ELSE 0,
     null_bitmap |-> null_bit_buffer,
     buffers |-> buffers,
     child_data |-> child_data]

\* ArrayData::is_valid / is_null
DataIsValid(data, i) ==
    IF IsSome(data.null_bitmap)
    THEN get_bit(Unwrap(data.null_bitmap).bytes, i)
    ELSE TRUE

DataIsNull(data, i) == ~DataIsValid(data, i)

(***************************************************************************)
(* Outcomes: a call returns, or panics with a message.                     *)
(***************************************************************************)
Panic(msg) == [kind |-> "panic", msg |-> msg]
Ok(v, oob) == [kind |-> "ok", val |-> v, oob |-> oob]
IsPanic(x) == x.kind = "panic"
IsArray(x) == x.kind = "array"

(***************************************************************************)
(* RawPtrBox: a raw pointer, modelled by the region it points into.        *)
(***************************************************************************)
RawPtrBox(buffer) == [inner |-> buffer]

\* Element k of width SizeOf(tag) lies inside the region.
InRegion(tag, ptr, k) == k >= 0 /\ (k + 1) * SizeOf(tag) <= Len(ptr.inner.bytes)

\* *(ptr as *const Native).offset(k)
Deref(tag, ptr, k, junk) ==
    IF InRegion(tag, ptr, k)
    THEN FromBytes(tag, SubSeq(ptr.inner.bytes, k * SizeOf(tag) + 1, (k + 1) * SizeOf(tag)))
    ELSE junk

(***************************************************************************)
(* Construction of the concrete layouts from a data container.             *)
(***************************************************************************)
\* Mutant: accepts any container that has at least one buffer.
PrimitiveArrayFrom_AtLeastOne(ty, data) ==
    IF Len(data.buffers) < 1
    THEN Panic("PrimitiveArray data should contain a single buffer only (values buffer)")
    ELSE IF ~is_aligned(data.buffers[1].addr, AlignOf(ty))
    THEN Panic("memory is not aligned")
    ELSE [kind |-> "array", layout |-> "PrimitiveArray", ty |-> ty,
          data |-> data, raw_values |-> RawPtrBox(data.buffers[1])]

PrimitiveArrayFrom(ty, data) ==
    IF Len(data.buffers) # 1
    THEN Panic("PrimitiveArray data should contain a single buffer only (values buffer)")
    ELSE IF ~is_aligned(data.buffers[1].addr, AlignOf(ty))
    THEN Panic("memory is not aligned")
    ELSE [kind |-> "array", layout |-> "PrimitiveArray", ty |-> ty,
          data |-> data, raw_values |-> RawPtrBox(data.buffers[1])]

\* Mutant: the offsets pointer is not checked for alignment.
BinaryArrayFrom_NoAlignCheck(data) ==
    IF Len(data.buffers) # 2
    THEN Panic("BinaryArray data should contain 2 buffers only (offsets and values)")
    ELSE [kind |-> "array", layout |-> "BinaryArray", data |-> data,
          value_offsets |-> RawPtrBox(data.buffers[1]),
          value_data |-> RawPtrBox(data.buffers[2])]

BinaryArrayFrom(data) ==
    IF Len(data.buffers) # 2
    THEN Panic("BinaryArray data should contain 2 buffers only (offsets and values)")
    ELSE IF ~is_aligned(data.buffers[1].addr, AlignOf("Int32"))
    THEN Panic("memory is not aligned")
    ELSE [kind |-> "array", layout |-> "BinaryArray", data |-> data,
          value_offsets |-> RawPtrBox(data.buffers[1]),
          value_data |-> RawPtrBox(data.buffers[2])]

RECURSIVE make_array(_, _)

\* Mutant: the first offset is not checked.
ListArrayFrom_NoStartCheck(data, junk) ==
    IF Len(data.buffers) # 1
    THEN Panic("ListArray data should contain a single buffer only (value offsets)")
    ELSE IF Len(data.child_data) # 1
    THEN Panic("ListArray should contain a single child array (values array)")
    ELSE LET values == make_array(data.child_data[1], junk)
             value_offsets == RawPtrBox(data.buffers[1])
         IN IF IsPanic(values) THEN values
            ELSE IF ~is_aligned(data.buffers[1].addr, AlignOf("Int32"))
            THEN Panic("memory is not aligned")
            ELSE IF Deref("Int32", value_offsets, data.len, junk) # values.data.len
            THEN Panic("inconsistent offsets buffer and values array")
            ELSE [kind |-> "array", layout |-> "ListArray", data |-> data,
                  values |-> values, value_offsets |-> value_offsets]

\* Mutant: the final offset is not checked against the child's length.
ListArrayFrom_NoEndCheck(data, junk) ==
    IF Len(data.buffers) # 1
    THEN Panic("ListArray data should contain a single buffer only (value offsets)")
    ELSE IF Len(data.child_data) # 1
    THEN Panic("ListArray should contain a single child array (values array)")
    ELSE LET values == make_array(data.child_data[1], junk)
             value_offsets == RawPtrBox(data.buffers[1])
         IN IF IsPanic(values) THEN values
            ELSE IF ~is_aligned(data.buffers[1].addr, AlignOf("Int32"))
            THEN Panic("memory is not aligned")
            ELSE IF Deref("Int32", value_offsets, 0, junk) # 0
            THEN Panic("offsets do not start at zero")
            ELSE [kind |-> "array", layout |-> "ListArray", data |-> data,
                  values |-> values, value_offsets |-> value_offsets]

\* Mutant: every pair of consecutive offsets is checked to be ordered.
ListArrayFrom_Monotonic(data, junk) ==
    IF Len(data.buffers) # 1
    THEN Panic("ListArray data should contain a single buffer only (value offsets)")
    ELSE IF Len(data.child_data) # 1
    THEN Panic("ListArray should contain a single child array (values array)")
    ELSE LET values == make_array(data.child_data[1], junk)
             value_offsets == RawPtrBox(data.buffers[1])
         IN IF IsPanic(values) THEN values
            ELSE IF ~is_aligned(data.buffers[1].addr, AlignOf("Int32"))
            THEN Panic("memory is not aligned")
            ELSE IF Deref("Int32", value_offsets, 0, junk) # 0
            THEN Panic("offsets do not start at zero")
            ELSE IF Deref("Int32", value_offsets, data.len, junk) # values.data.len
            THEN Panic("inconsistent offsets buffer and values array")
            ELSE IF \E k \in 0..(data.len - 1) :
                        Deref("Int32", value_offsets, k, junk)
                            > Deref("Int32", value_offsets, k + 1, junk)
            THEN Panic("offsets are not ordered")
            ELSE [kind |-> "array", layout |-> "ListArray", data |-> data,
                  values |-> values, value_offsets |-> value_offsets]

\* Mutant: the alignment is checked before the child array is built.
ListArrayFrom_AlignFirst(data, junk) ==
    IF Len(data.buffers) # 1
    THEN Panic("ListArray data should contain a single buffer only (value offsets)")
    ELSE IF Len(data.child_data) # 1
    THEN Panic("ListArray should contain a single child array (values array)")
    ELSE IF ~is_aligned(data.buffers[1].addr, AlignOf("Int32"))
    THEN Panic("memory is not aligned")
    ELSE LET values == make_array(data.child_data[1], junk)
             value_offsets == RawPtrBox(data.buffers[1])
         IN IF IsPanic(values) THEN values
            ELSE IF Deref("Int32", value_offsets, 0, junk) # 0
            THEN Panic("offsets do not start at zero")
            ELSE IF Deref("Int32", value_offsets, data.len, junk) # values.data.len
            THEN Panic("inconsistent offsets buffer and values array")
            ELSE [kind |-> "array", layout |-> "ListArray", data |-> data,
                  values |-> values, value_offsets |-> value_offsets]

ListArrayFrom(data, junk) ==
    IF Len(data.buffers) # 1
    THEN Panic("ListArray data should contain a single buffer only (value offsets)")
    ELSE IF Len(data.child_data) # 1
    THEN Panic("ListArray should contain a single child array (values array)")
    ELSE LET values == make_array(data.child_data[1], junk)
             value_offsets == RawPtrBox(data.buffers[1])
         IN IF IsPanic(values) THEN values
            ELSE IF ~is_aligned(data.buffers[1].addr, AlignOf("Int32"))
            THEN Panic("memory is not aligned")
            ELSE IF Deref("Int32", value_offsets, 0, junk) # 0
            THEN Panic("offsets do not start at zero")
            ELSE IF Deref("Int32", value_offsets, data.len, junk) # values.data.len
            THEN Panic("inconsistent offsets buffer and values array")
            ELSE [kind |-> "array", layout |-> "ListArray", data |-> data,
                  values |-> values, value_offsets |-> value_offsets]

\* Mutant: a field whose construction failed is kept in the struct.
StructArrayFrom_KeepFailed(data, junk) ==
    [kind |-> "array", layout |-> "StructArray", data |-> data,
     boxed_fields |-> [k \in DOMAIN data.child_data |-> make_array(data.child_data[k], junk)]]

\* Mutant: the field arrays are pushed in reverse order.
StructArrayFrom_Reversed(data, junk) ==
    LET n == Len(data.child_data)
        boxed_fields == [k \in DOMAIN data.child_data |->
                            make_array(data.child_data[n + 1 - k], junk)]
        failed == {k \in DOMAIN boxed_fields : IsPanic(boxed_fields[k])}
    IN IF failed # {}
       THEN boxed_fields[CHOOSE k \in failed : \A j \in failed : k <= j]
       ELSE [kind |-> "array", layout |-> "StructArray", data |-> data,
             boxed_fields |-> boxed_fields]

\* Mutant: child containers of unequal lengths are rejected.
StructArrayFrom_EqualLengths(data, junk) ==
    LET boxed_fields == [k \in DOMAIN data.child_data |-> make_array(data.child_data[k], junk)]
        failed == {k \in DOMAIN boxed_fields : IsPanic(boxed_fields[k])}
    IN IF failed # {}
       THEN boxed_fields[CHOOSE k \in failed : \A j \in failed : k <= j]
       ELSE IF \E j, k \in DOMAIN data.child_data :
                    data.child_data[j].len # data.child_data[k].len
       THEN Panic("all child arrays of a StructArray must have the same length")
       ELSE [kind |-> "array", layout |-> "StructArray", data |-> data,
             boxed_fields |-> boxed_fields]

StructArrayFrom(data, junk) ==
    LET boxed_fields == [k \in DOMAIN data.child_data |-> make_array(data.child_data[k], junk)]
        failed == {k \in DOMAIN boxed_fields : IsPanic(boxed_fields[k])}
    IN IF failed # {}
       THEN boxed_fields[CHOOSE k \in failed : \A j \in failed : k <= j]
       ELSE [kind |-> "array", layout |-> "StructArray", data |-> data,
             boxed_fields |-> boxed_fields]

\* Mutant: text containers are dispatched to the list layout.
make_array_Utf8AsList(data, junk) ==
    LET tag == data.data_type.tag
    IN CASE tag = "Boolean" -> PrimitiveArrayFrom("Boolean", data)
         [] tag \in NumericTags -> PrimitiveArrayFrom(tag, data)
         [] tag = "Utf8" -> ListArrayFrom(data, junk)
         [] tag = "List" -> ListArrayFrom(data, junk)
         [] tag = "Struct" -> StructArrayFrom(data, junk)
         [] OTHER -> Panic("Unexpected data type")

\* Mutant: an unknown tag falls back to a 64-bit primitive array.
make_array_Fallback(data, junk) ==
    LET tag == data.data_type.tag
    IN CASE tag = "Boolean" -> PrimitiveArrayFrom("Boolean", data)
         [] tag \in NumericTags -> PrimitiveArrayFrom(tag, data)
         [] tag = "Utf8" -> BinaryArrayFrom(data)
         [] tag = "List" -> ListArrayFrom(data, junk)
         [] tag = "Struct" -> StructArrayFrom(data, junk)
         [] OTHER -> PrimitiveArrayFrom("Int64", data)

make_array(data, junk) ==
    LET tag == data.data_type.tag
    IN CASE tag = "Boolean" -> PrimitiveArrayFrom("Boolean", data)
         [] tag \in NumericTags -> PrimitiveArrayFrom(tag, data)
         [] tag = "Utf8" -> BinaryArrayFrom(data)
         [] tag = "List" -> ListArrayFrom(data, junk)
         [] tag = "Struct" -> StructArrayFrom(data, junk)
         [] OTHER -> Panic("Unexpected data type")

(***************************************************************************)
(* The Array trait: what every layout answers from its data container.     *)
(***************************************************************************)
RECURSIVE Array_len(_)

\* Mutant: a struct array takes its length from its last field.
Array_len_LastField(a) ==
    IF a.layout = "StructArray"
    THEN IF a.boxed_fields = <<>>
         THEN Panic("index out of bounds")
         ELSE Array_len(a.boxed_fields[Len(a.boxed_fields)])
    ELSE Ok(a.data.len, FALSE)

Array_len(a) ==
    IF a.layout = "StructArray"
    THEN IF a.boxed_fields = <<>>
         THEN Panic("index out of bounds")
         ELSE Array_len(a.boxed_fields[1])
    ELSE Ok(a.data.len, FALSE)

Array_offset(a) == Ok(a.data.offset, FALSE)

Array_null_count(a) == Ok(a.data.null_count, FALSE)

Array_is_null(a, i) == Ok(DataIsNull(a.data, i), FALSE)

Array_is_valid(a, i) == Ok(DataIsValid(a.data, i), FALSE)

(***************************************************************************)
(* Value accessors.                                                        *)
(***************************************************************************)
\* PrimitiveArray<T: ArrowNumericType>::raw_values, as an element index
\* from the start of the value buffer.
\* Mutant: the logical offset is not applied.
raw_values_NoOffset(a) == 0

raw_values(a) == a.data.offset

Primitive_value(a, i, junk) ==
    Ok(Deref(a.ty, a.raw_values, raw_values(a) + i, junk),
       ~InRegion(a.ty, a.raw_values, raw_values(a) + i))

\* Mutant: bits are numbered from the most significant bit of each byte.
Boolean_value_MsbFirst(a, i, junk) ==
    LET offset == i + a.data.offset
    IN IF ~(offset < a.data.len)
       THEN Panic("assertion failed: offset < self.data.len()")
       ELSE Ok(get_bit_raw(a.raw_values.inner, 8 * (offset \div 8) + 7 - (offset % 8), junk # 0),
               ~(offset \div 8 < Len(a.raw_values.inner.bytes)))

Boolean_value(a, i, junk) ==
    LET offset == i + a.data.offset
    IN IF ~(offset < a.data.len)
       THEN Panic("assertion failed: offset < self.data.len()")
       ELSE Ok(get_bit_raw(a.raw_values.inner, offset, junk # 0),
               ~(offset \div 8 < Len(a.raw_values.inner.bytes)))

List_value_offset_at(a, i, junk) == Deref("Int32", a.value_offsets, i, junk)

List_value_offset(a, i, junk) ==
    Ok(List_value_offset_at(a, a.data.offset + i, junk),
       ~InRegion("Int32", a.value_offsets, a.data.offset + i))

List_value_length(a, i, junk) ==
    LET j == i + a.data.offset
    IN Ok(List_value_offset_at(a, j + 1, junk) - List_value_offset_at(a, j, junk),
          ~InRegion("Int32", a.value_offsets, j + 1))

Binary_value_offset_at(a, i, junk) == Deref("Int32", a.value_offsets, i, junk)

Binary_value_offset(a, i, junk) ==
    Ok(Binary_value_offset_at(a, a.data.offset + i, junk),
       ~InRegion("Int32", a.value_offsets, a.data.offset + i))

Binary_value_length(a, i, junk) ==
    LET j == i + a.data.offset
    IN Ok(Binary_value_offset_at(a, j + 1, junk) - Binary_value_offset_at(a, j, junk),
          ~InRegion("Int32", a.value_offsets, j + 1))

\* slice::from_raw_parts(ptr.offset(pos), len) over a byte region: the bytes
\* at the positions inside the region, junk at the others.
SliceFromRawParts(ptr, pos, len, junk) ==
    [k \in 1..len |-> Deref("UInt8", ptr, pos + k - 1, junk)]

\* The bytes [pos, end) lie inside the region.
SpanInRegion(ptr, pos, end) == 0 <= pos /\ pos <= end /\ end <= Len(ptr.inner.bytes)

\* BinaryArray::value: (end - pos) as usize of a negative difference is a
\* length beyond every region, of which one junk byte is kept.
\* Mutant: the index is not checked.
Binary_value_Unchecked(a, i, junk) ==
    LET offset == i + a.data.offset
        pos == Binary_value_offset_at(a, offset, junk)
        end == Binary_value_offset_at(a, offset + 1, junk)
    IN Ok(IF end < pos THEN <<junk>>
          ELSE SliceFromRawParts(a.value_data, pos, end - pos, junk),
          ~(/\ InRegion("Int32", a.value_offsets, offset + 1)
            /\ SpanInRegion(a.value_data, pos, end)))

Binary_value(a, i, junk) ==
    IF ~(i < a.data.len)
    THEN Panic("BinaryArray out of bounds access")
    ELSE LET offset == i + a.data.offset
             pos == Binary_value_offset_at(a, offset, junk)
             end == Binary_value_offset_at(a, offset + 1, junk)
         IN Ok(IF end < pos THEN <<junk>>
               ELSE SliceFromRawParts(a.value_data, pos, end - pos, junk),
               ~(/\ InRegion("Int32", a.value_offsets, offset + 1)
                 /\ SpanInRegion(a.value_data, pos, end)))

\* String::from_utf8_unchecked(Vec::from(slice)): the bytes, copied into
\* the vector of a String, with no validation.
String_from_utf8_unchecked(bytes) == [vec |-> bytes]

Binary_get_string(a, i, junk) ==
    LET slice == Binary_value(a, i, junk)
    IN IF IsPanic(slice) THEN slice
       ELSE Ok(String_from_utf8_unchecked(slice.val), slice.oob)

\* value_slice(offset, len) of a numeric array: len elements from
\* raw_values() + offset on.
\* Mutant: the slice is checked against the array length.
Primitive_value_slice_Checked(a, offset, len, junk) ==
    IF offset + len > a.data.len
    THEN Panic("index out of bounds")
    ELSE Ok([k \in 1..len |-> Deref(a.ty, a.raw_values, raw_values(a) + offset + k - 1, junk)],
            \E k \in 1..len : ~InRegion(a.ty, a.raw_values, raw_values(a) + offset + k - 1))

Primitive_value_slice(a, offset, len, junk) ==
    Ok([k \in 1..len |-> Deref(a.ty, a.raw_values, raw_values(a) + offset + k - 1, junk)],
       \E k \in 1..len : ~InRegion(a.ty, a.raw_values, raw_values(a) + offset + k - 1))

\* StructArray::column(pos)
Struct_column(a, pos) ==
    IF pos < Len(a.boxed_fields)
    THEN Ok(a.boxed_fields[pos + 1], FALSE)
    ELSE Panic("index out of bounds")

(***************************************************************************)
(* Temporal decoding.                                                      *)
(***************************************************************************)
SECONDS_IN_DAY == 86400
MILLISECONDS == 1000
MICROSECONDS == 1000000
NANOSECONDS == 1000000000

\* i64 division and remainder, which truncate towards zero.
TruncDiv(a, b) == IF a >= 0 THEN a \div b ELSE -((-a) \div b)

TruncRem(a, b) == a - b * TruncDiv(a, b)

\* x as u32: the low 32 bits, kept as two 16-bit halves.
AsU32(x) == [hi |-> (x \div 65536) % 65536, lo |-> x % 65536]

\* A u32 below 2_000_000_000 = 30517 * 65536 + 37888.
ValidNanos(n) == n.hi < 30517 \/ (n.hi = 30517 /\ n.lo < 37888)

U32Value(n) == n.hi * 65536 + n.lo

\* chrono's NaiveDateTime::from_timestamp(secs, nsecs), which panics on
\* nanoseconds of two seconds or more.
NaiveDateTime_from_timestamp(secs, nsecs) ==
    IF ValidNanos(nsecs)
    THEN [kind |-> "datetime", secs |-> secs, nsecs |-> U32Value(nsecs)]
    ELSE Panic("invalid or out-of-range datetime")

\* i64, i32: the native type of a temporal data type.
NativeOf(dt) ==
    IF dt.tag \in {"Date32", "Time32"} \/ dt = Interval("YearMonth")
    THEN "Int32"
    ELSE "Int64"

\* The datetime a native value v decodes to under data type dt, if any.
DecodeDatetime(dt, v) ==
    CASE dt.tag = "Date32" ->
            Some(NaiveDateTime_from_timestamp(v * SECONDS_IN_DAY, AsU32(0)))
      [] dt.tag = "Date64" ->
            Some(NaiveDateTime_from_timestamp(
                    TruncDiv(v, MILLISECONDS),
                    AsU32(TruncRem(v, MILLISECONDS) * MICROSECONDS)))
      [] dt.tag \in {"Time32", "Time64"} -> None
      [] dt = Timestamp("Second") ->
            Some(NaiveDateTime_from_timestamp(v, AsU32(0)))
      [] dt = Timestamp("Millisecond") ->
            Some(NaiveDateTime_from_timestamp(
                    TruncDiv(v, MILLISECONDS),
                    AsU32(TruncRem(v, MILLISECONDS) * MICROSECONDS)))
      [] dt = Timestamp("Microsecond") ->
            Some(NaiveDateTime_from_timestamp(
                    TruncDiv(v, MICROSECONDS),
                    AsU32(TruncRem(v, MICROSECONDS) * MILLISECONDS)))
      [] dt = Timestamp("Nanosecond") ->
            Some(NaiveDateTime_from_timestamp(
                    TruncDiv(v, NANOSECONDS),
                    AsU32(TruncRem(v, NANOSECONDS))))
      [] dt.tag = "Interval" -> None
      [] OTHER -> None

value_as_datetime(a, i, junk) ==
    LET v == Primitive_value(a, i, junk)
        d == DecodeDatetime(a.data.data_type, v.val)
    IN IF IsSome(d) /\ IsPanic(Unwrap(d))
       THEN Unwrap(d)
       ELSE Ok(d, v.oob)

(***************************************************************************)
(* Construction from host collections.                                     *)
(***************************************************************************)
\* The loop of From<Vec<Option<native>>>: the validity bytes after the
\* first k elements of data.
RECURSIVE NumericNullBytes(_, _)
NumericNullBytes(data, k) ==
    IF k = 0 THEN ZeroBytes(ceil(Len(data), 8))
    ELSE IF IsSome(data[k])
         THEN set_bit(NumericNullBytes(data, k - 1), k - 1)
         ELSE NumericNullBytes(data, k - 1)

\* ... and the value bytes written after the first k elements.
RECURSIVE NumericValBytes(_, _, _)

\* Mutant: a null element writes no placeholder into the value buffer.
NumericValBytes_NoPlaceholder(ty, data, k) ==
    IF k = 0 THEN <<>>
    ELSE NumericValBytes(ty, data, k - 1) \o
         (IF IsSome(data[k])
          THEN ToBytes(Unwrap(data[k]), SizeOf(ty))
          ELSE <<>>)

NumericValBytes(ty, data, k) ==
    IF k = 0 THEN <<>>
    ELSE NumericValBytes(ty, data, k - 1) \o
         (IF IsSome(data[k])
          THEN ToBytes(Unwrap(data[k]), SizeOf(ty))
          ELSE ZeroBytes(SizeOf(ty)))

PrimitiveFromVecOption(ty, data) ==
    PrimitiveArrayFrom(ty,
        ArrayDataBuild(T(ty), Len(data), None,
                       Some(BufferFrom(NumericNullBytes(data, Len(data)))), 0,
                       <<BufferFrom(NumericValBytes(ty, data, Len(data)))>>, <<>>))

RECURSIVE BooleanNullBytes(_, _)
BooleanNullBytes(data, k) ==
    IF k = 0 THEN ZeroBytes(ceil(Len(data), 8))
    ELSE IF IsSome(data[k])
         THEN set_bit(BooleanNullBytes(data, k - 1), k - 1)
         ELSE BooleanNullBytes(data, k - 1)

RECURSIVE BooleanValBytes(_, _)

\* Mutant: the value bit is set for every non-null element.
BooleanValBytes_AnySome(data, k) ==
    IF k = 0 THEN ZeroBytes(ceil(Len(data), 8))
    ELSE IF IsSome(data[k])
         THEN set_bit(BooleanValBytes(data, k - 1), k - 1)
         ELSE BooleanValBytes(data, k - 1)

BooleanValBytes(data, k) ==
    IF k = 0 THEN ZeroBytes(ceil(Len(data), 8))
    ELSE IF IsSome(data[k]) /\ Unwrap(data[k])
         THEN set_bit(BooleanValBytes(data, k - 1), k - 1)
         ELSE BooleanValBytes(data, k - 1)

BooleanFromVecOption(data) ==
    PrimitiveArrayFrom("Boolean",
        ArrayDataBuild(T("Boolean"), Len(data), None,
                       Some(BufferFrom(BooleanNullBytes(data, Len(data)))), 0,
                       <<BufferFrom(BooleanValBytes(data, Len(data)))>>, <<>>))

\* PrimitiveArray<BooleanType>::new
BooleanNew(length, values, null_count, offset) ==
    PrimitiveArrayFrom("Boolean",
        ArrayDataBuild(T("Boolean"), length, Some(null_count), None, offset,
                       <<values>>, <<>>))

\* PrimitiveArray<T: ArrowNumericType>::new
PrimitiveNew(ty, length, values, null_count, offset) ==
    PrimitiveArrayFrom(ty,
        ArrayDataBuild(T(ty), length, Some(null_count), None, offset,
                       <<values>>, <<>>))

\* The loop of From<Vec<&str>> / From<Vec<&[u8]>>: the offsets pushed and
\* the bytes appended after the first k elements.
RECURSIVE BinaryOffsets(_, _)

\* Mutant: the length of each element is pushed, not the running total.
BinaryOffsets_PerElement(v, k) ==
    IF k = 0 THEN <<0>>
    ELSE Append(BinaryOffsets(v, k - 1), Len(v[k]))

BinaryOffsets(v, k) ==
    IF k = 0 THEN <<0>>
    ELSE LET offsets == BinaryOffsets(v, k - 1)
             length_so_far == offsets[Len(offsets)] + Len(v[k])
         IN Append(offsets, length_so_far)

RECURSIVE BinaryValues(_, _)
BinaryValues(v, k) ==
    IF k = 0 THEN <<>>
    ELSE BinaryValues(v, k - 1) \o v[k]

BinaryArrayFromVec(v) ==
    BinaryArrayFrom(
        ArrayDataBuild(T("Utf8"), Len(v), None, None, 0,
                       <<BufferFrom(SliceToBytes(BinaryOffsets(v, Len(v)), SizeOf("Int32"))),
                         BufferFrom(BinaryValues(v, Len(v)))>>,
                       <<>>))

\* Mutant: the element type is checked before the nesting.
BinaryArrayFromList_TypeFirst(v) ==
    LET child == v.data.child_data[1]
    IN IF child.data_type # T("UInt8")
       THEN Panic("BinaryArray can only be created from List<u8> arrays, mismatched data types.")
       ELSE IF Len(child.child_data) # 0
       THEN Panic("BinaryArray can only be created from list array of u8 values (i.e. List<PrimitiveArray<u8>>).")
       ELSE IF child.buffers = <<>>
       THEN Panic("index out of bounds")
       ELSE BinaryArrayFrom(
                ArrayDataBuild(T("Utf8"), Array_len(v).val,
                               IF IsSome(v.data.null_bitmap) THEN Some(v.data.null_count) ELSE None,
                               v.data.null_bitmap, 0,
                               <<v.data.buffers[1], child.buffers[1]>>, <<>>))

\* From<ListArray> for BinaryArray: the builder is given the length, the
\* two buffers and, with a bitmap, the null count and the bitmap; the
\* logical offset is left at the builder's 0.
BinaryArrayFromList(v) ==
    LET child == v.data.child_data[1]
    IN IF Len(child.child_data) # 0
       THEN Panic("BinaryArray can only be created from list array of u8 values (i.e. List<PrimitiveArray<u8>>).")
       ELSE IF child.data_type # T("UInt8")
       THEN Panic("BinaryArray can only be created from List<u8> arrays, mismatched data types.")
       ELSE IF child.buffers = <<>>
       THEN Panic("index out of bounds")
       ELSE BinaryArrayFrom(
                ArrayDataBuild(T("Utf8"), Array_len(v).val,
                               IF IsSome(v.data.null_bitmap) THEN Some(v.data.null_count) ELSE None,
                               v.data.null_bitmap, 0,
                               <<v.data.buffers[1], child.buffers[1]>>, <<>>))

\* datatypes::Field::new(name, data_type, nullable)
Field(name, data_type, nullable) ==
    [name |-> name, data_type |-> data_type, nullable |-> nullable]

\* Mutant: the lengths compared are those recorded on the columns'
\* containers.
StructArrayFromPairs_DataLen(v, junk) ==
    LET field_types == [k \in DOMAIN v |-> v[k][1]]
        field_values == [k \in DOMAIN v |-> v[k][2]]
    IN IF v = <<>>
       THEN Panic("index out of bounds")
       ELSE IF \E k \in 2..Len(v) : field_values[k].data.len # field_values[1].data.len
       THEN Panic("all child arrays of a StructArray must have the same length")
       ELSE StructArrayFrom(
                ArrayDataBuild(Struct(field_types), 0, None, None, 0, <<>>,
                               [k \in DOMAIN v |-> field_values[k].data]),
                junk)

\* From<Vec<(Field, ArrayRef)>> for StructArray: the loop stops at the
\* first column whose len() fails or differs from that of column 0.
StructArrayFromPairs(v, junk) ==
    LET field_types == [k \in DOMAIN v |-> v[k][1]]
        field_values == [k \in DOMAIN v |-> v[k][2]]
    IN IF v = <<>>
       THEN Panic("index out of bounds")
       ELSE LET length == Array_len(field_values[1])
                bad == {k \in 2..Len(v) : Array_len(field_values[k]) # length}
            IN IF IsPanic(length)
               THEN length
               ELSE IF bad # {}
               THEN LET k == CHOOSE k \in bad : \A j \in bad : k <= j
                    IN IF IsPanic(Array_len(field_values[k]))
                       THEN Array_len(field_values[k])
                       ELSE Panic("all child arrays of a StructArray must have the same length")
               ELSE StructArrayFrom(
                        ArrayDataBuild(Struct(field_types), 0, None, None, 0, <<>>,
                                       [k \in DOMAIN v |-> field_values[k].data]),
                        junk)

(***************************************************************************)
(* The inputs the model draws: native values, buffers and containers.      *)
(***************************************************************************)
PrimitiveTags == {"Boolean"} \cup NumericTags

\* Native values a buffer is filled with (for Boolean: packed bytes).
PoolVals(tag) ==
    CASE tag \in SignedTags -> {-1, 1}
      [] tag \in UnsignedTags -> {1, 255}
      [] tag \in FloatTags -> {1, 2}
      [] OTHER -> {2, 27}

\* Values of a Vec<Option<native>>.
VecVals(tag) ==
    CASE tag \in SignedTags -> {-1, 0, 1}
      [] tag \in UnsignedTags -> {0, 1, 255}
      [] OTHER -> {0, 1, 2}

\* What a read outside a region may yield.
JunkVals == {0, 2}

NativeBuffer(tag, vals) == BufferFrom(SliceToBytes(vals, SizeOf(tag)))

NativeBuffers(tag) ==
    {NativeBuffer(tag, vals) : vals \in SeqsUpTo(PoolVals(tag), MaxBufElems)}

\* A buffer that starts one byte into an aligned allocation.
MisalignedBuffer(tag) ==
    BufferSlice(BufferFrom(SliceToBytes(<<1, 1>>, SizeOf(tag)) \o <<0>>), 1)

\* A buffer that starts four bytes into an aligned allocation.
HalfAlignedBuffer(tag) ==
    BufferSlice(BufferFrom(<<0, 0, 0, 0>> \o SliceToBytes(<<1, 1>>, SizeOf(tag))), 4)

Filler == BufferFrom(<<0, 0, 0, 0>>)

Fillers(n) == [k \in 1..n |-> Filler]

\* Buffer lists for a fixed-width tag: none, one, or too many.
PrimitiveBufferLists(tag) ==
    {<<>>}
    \cup {<<b>> : b \in NativeBuffers(tag)
                        \cup {MisalignedBuffer(tag), HalfAlignedBuffer(tag)}}
    \cup {<<NativeBuffer(tag, <<1, 1>>)>> \o Fillers(n) : n \in 1..(MaxBufs - 1)}

NullCounts == {None, Some(1)}

PrimitiveContainersOf(tag) ==
    {ArrayDataBuild(T(tag), n, nc, None, o, bufs, <<>>) :
        n \in 0..MaxLen, nc \in NullCounts,
        o \in 0..MaxOffset, bufs \in PrimitiveBufferLists(tag)}

PrimitiveContainers == UNION {PrimitiveContainersOf(tag) : tag \in PrimitiveTags}

\* Type tags the factory does not know.
UnsupportedTypes ==
    {Timestamp("Second"), Timestamp("Nanosecond"), Date32, Date64,
     Time32("Second"), Time64("Microsecond"), Interval("YearMonth")}

UnsupportedContainers ==
    {ArrayDataBuild(dt, n, None, None, 0, bufs, <<>>) :
        dt \in UnsupportedTypes, n \in 0..MaxLen,
        bufs \in {<<>>, <<NativeBuffer("Int64", <<1, 1>>)>>}}

\* Offsets buffers of list and text containers.
OffsetVals == {-1, 0, 2}

OffsetBuffers ==
    {NativeBuffer("Int32", offs) : offs \in SeqsUpTo(OffsetVals, MaxBufElems)}

MisalignedOffsets == MisalignedBuffer("Int32")

PayloadBuffers == {BufferFrom(<<104, 105>>), BufferFrom(<<>>)}

Int32Data(vals) ==
    ArrayDataBuild(T("Int32"), Len(vals), None, None, 0, <<NativeBuffer("Int32", vals)>>, <<>>)

UInt8Data(vals) ==
    ArrayDataBuild(T("UInt8"), Len(vals), None, None, 0, <<NativeBuffer("UInt8", vals)>>, <<>>)

\* Child containers of the nested containers: valid leaves of several
\* lengths, a leaf with no buffer, a leaf of an unsupported type, and
\* nested containers.
LeafChildren ==
    {Int32Data(<<1, 2>>), Int32Data(<<>>), UInt8Data(<<104, 105>>),
     ArrayDataBuild(T("Boolean"), 1, None, None, 0, <<BufferFrom(<<1>>)>>, <<>>),
     ArrayDataBuild(T("Int32"), 2, None, None, 0, <<>>, <<>>),
     ArrayDataBuild(Date32, 2, None, None, 0, <<NativeBuffer("Int32", <<1, 2>>)>>, <<>>)}

NestedChildren ==
    {ArrayDataBuild(List(T("Int32")), 2, None, None, 0,
                    <<NativeBuffer("Int32", <<0, 2, 2>>)>>, <<Int32Data(<<1, 2>>)>>),
     ArrayDataBuild(Struct(<<T("Int32"), T("UInt8")>>), 2, None, None, 0, <<>>,
                    <<Int32Data(<<1, 2>>), UInt8Data(<<104, 105>>)>>)}

\* Nested children whose own child cannot be built.
FailingNestedChildren ==
    {ArrayDataBuild(List(T("Int32")), 0, None, None, 0,
                    <<NativeBuffer("Int32", <<0, 2>>)>>,
                    <<ArrayDataBuild(T("Int32"), 0, None, None, 0, <<>>, <<>>)>>),
     ArrayDataBuild(Struct(<<T("Int32"), Date32>>), 2, None, None, 0, <<>>,
                    <<Int32Data(<<1, 2>>),
                      ArrayDataBuild(Date32, 2, None, None, 0,
                                     <<NativeBuffer("Int32", <<1, 2>>)>>, <<>>)>>)}

Children == LeafChildren \cup NestedChildren \cup FailingNestedChildren

ListBufferLists ==
    {<<>>}
    \cup {<<b>> : b \in OffsetBuffers \cup {MisalignedOffsets}}
    \cup {<<NativeBuffer("Int32", <<0, 2>>)>> \o Fillers(n) : n \in 1..(MaxBufs - 1)}

ListContainers ==
    {ArrayDataBuild(List(c.data_type), n, None, None, o, bufs, <<c>>) :
        c \in Children, n \in 0..MaxLen, o \in 0..MaxOffset, bufs \in ListBufferLists}
    \cup
    {ArrayDataBuild(List(T("Int32")), n, None, None, 0,
                    <<NativeBuffer("Int32", <<0, 2>>)>>, cs) :
        n \in 0..MaxLen, cs \in {<<>>, <<Int32Data(<<1, 2>>), Int32Data(<<1, 2>>)>>}}

BinaryBufferLists ==
    {<<>>}
    \cup {<<b>> : b \in {NativeBuffer("Int32", <<0, 2>>)}}
    \cup {<<b, p>> : b \in OffsetBuffers \cup {MisalignedOffsets}, p \in PayloadBuffers}
    \cup {<<NativeBuffer("Int32", <<0, 2>>), BufferFrom(<<104, 105>>)>> \o Fillers(n) :
             n \in 1..(MaxBufs - 2)}

BinaryContainers ==
    {ArrayDataBuild(T("Utf8"), n, None, None, o, bufs, <<>>) :
        n \in 0..MaxLen, o \in 0..MaxOffset, bufs \in BinaryBufferLists}

StructContainers ==
    {ArrayDataBuild(Struct([k \in DOMAIN cs |-> cs[k].data_type]), n, nc, None, o, <<>>, cs) :
        cs \in SeqsUpTo(Children, 2), n \in 0..MaxLen, nc \in NullCounts,
        o \in 0..MaxOffset}

\* Lists of bytes, with and without a validity bitmap, and a byte child
\* that has a child of its own.
ByteChildren ==
    {UInt8Data(<<104, 105>>),
     ArrayDataBuild(T("UInt8"), 2, None, None, 0, <<NativeBuffer("UInt8", <<104, 105>>)>>,
                    <<UInt8Data(<<>>)>>)}

ByteListContainers ==
    {ArrayDataBuild(List(T("UInt8")), n, nc, bm, o, <<NativeBuffer("Int32", offs)>>, <<c>>) :
        c \in ByteChildren, n \in 0..MaxLen, nc \in NullCounts,
        bm \in {None, Some(BufferFrom(<<1>>)), Some(BufferFrom(<<2>>))},
        o \in 0..MaxOffset, offs \in {<<0, 2>>, <<0, 0, 2>>, <<0, 2, 2>>}}

Containers ==
    PrimitiveContainers \cup UnsupportedContainers \cup ListContainers
    \cup BinaryContainers \cup StructContainers \cup ByteListContainers

\* Packed boolean buffers for BooleanArray::new, with the offsets and
\* lengths they are viewed under.
BooleanBuffers == {BufferFrom(<<72, 2>>), BufferFrom(<<27>>), BufferFrom(<<10>>)}

\* Temporal data types and the native values stored under them.
TemporalTypes ==
    {Timestamp(u) : u \in {"Second", "Millisecond", "Microsecond", "Nanosecond"}}
    \cup {Date32, Date64, Time32("Second"), Time32("Millisecond"),
          Time64("Microsecond"), Time64("Nanosecond"),
          Interval("YearMonth"), Interval("DayTime")}

TemporalVals(dt) ==
    {-1500, -1000, -1, 0, 1, 1500}
    \cup (IF dt = Timestamp("Nanosecond") THEN {1000000001, -1000000000} ELSE {})

\* Strings and byte slices a text array is built from.
Strings == {<<>>, <<104>>, <<104, 105>>}

\* Columns a struct array is built from: arrays of the factory, among
\* them struct arrays whose own container records another length than
\* their first field has, and one without fields.
MaxFields == 2

ColumnContainers ==
    {Int32Data(<<1, 2>>), Int32Data(<<>>), UInt8Data(<<104, 105>>),
     ArrayDataBuild(T("Boolean"), 1, None, None, 0, <<BufferFrom(<<1>>)>>, <<>>),
     ArrayDataBuild(T("Utf8"), 2, None, None, 0,
                    <<NativeBuffer("Int32", <<0, 2, 2>>), BufferFrom(<<104, 105>>)>>, <<>>),
     ArrayDataBuild(List(T("Int32")), 1, None, None, 0,
                    <<NativeBuffer("Int32", <<0, 2>>)>>, <<Int32Data(<<1, 2>>)>>),
     ArrayDataBuild(Struct(<<T("Int32")>>), 0, None, None, 0, <<>>, <<Int32Data(<<1, 2>>)>>),
     ArrayDataBuild(Struct(<<T("Int32")>>), 2, None, None, 0, <<>>, <<Int32Data(<<>>)>>),
     ArrayDataBuild(Struct(<<>>), 2, None, None, 0, <<>>, <<>>)}

Columns == {make_array(d, 0) : d \in ColumnContainers}

FieldNames == <<"a", "b", "c">>

\* Vec<(Field, ArrayRef)>: the columns, each under a field of its type.
Pairs(cols) ==
    [k \in DOMAIN cols |-> <<Field(FieldNames[k], cols[k].data.data_type, FALSE), cols[k]>>]

(***************************************************************************)
(* The state machine: a constructor call produces arr; accessor calls      *)
(* read it.                                                                *)
(***************************************************************************)
NoCall == [op |-> "none"]
NoArr == [kind |-> "none"]
NoRet == [op |-> "none"]

Init ==
    /\ call = NoCall
    /\ arr = NoArr
    /\ ret = NoRet

\* Each behaviour constructs one array and then reads it.
MakeArray ==
    /\ call = NoCall
    /\ \E data \in Containers, junk \in JunkVals :
        /\ call' = [op |-> "make_array", data |-> data]
        /\ arr' = make_array(data, junk)
        /\ ret' = NoRet

FromVecOption ==
    /\ call = NoCall
    /\ \E ty \in NumericTags :
        \E data \in SeqsUpTo({None} \cup {Some(v) : v \in VecVals(ty)}, MaxLen) :
            /\ call' = [op |-> "from_vec_option", ty |-> ty, vec |-> data]
            /\ arr' = PrimitiveFromVecOption(ty, data)
            /\ ret' = NoRet

BooleanFromVecOptionCall ==
    /\ call = NoCall
    /\ \E data \in SeqsUpTo({None, Some(FALSE), Some(TRUE)}, MaxLen + 1) :
        /\ call' = [op |-> "from_vec_option", ty |-> "Boolean", vec |-> data]
        /\ arr' = BooleanFromVecOption(data)
        /\ ret' = NoRet

BooleanNewCall ==
    /\ call = NoCall
    /\ \E values \in BooleanBuffers, offset \in 0..(MaxOffset + 1) :
        \E length \in 0..(8 * Len(values.bytes)) :
            /\ call' = [op |-> "new", ty |-> "Boolean", length |-> length,
                        values |-> values, null_count |-> 0, offset |-> offset]
            /\ arr' = BooleanNew(length, values, 0, offset)
            /\ ret' = NoRet

\* PrimitiveArray<T>::from(Vec<T::Native>) of a temporal type T.
TemporalFromVec(dt, data) ==
    PrimitiveArrayFrom(NativeOf(dt),
        ArrayDataBuild(dt, Len(data), None, None, 0,
                       <<BufferFrom(SliceToBytes(data, SizeOf(NativeOf(dt))))>>, <<>>))

TemporalFrom ==
    /\ call = NoCall
    /\ \E dt \in TemporalTypes :
        \E data \in SeqsUpTo(TemporalVals(dt), MaxLen) :
            /\ call' = [op |-> "temporal_from_vec", data_type |-> dt, vec |-> data]
            /\ arr' = TemporalFromVec(dt, data)
            /\ ret' = NoRet

BinaryFromVec ==
    /\ call = NoCall
    /\ \E v \in SeqsUpTo(Strings, MaxLen + 1) :
        /\ call' = [op |-> "binary_from_vec", vec |-> v]
        /\ arr' = BinaryArrayFromVec(v)
        /\ ret' = NoRet

StructFromPairs ==
    /\ call = NoCall
    /\ \E cols \in SeqsUpTo(Columns, MaxFields), junk \in JunkVals :
        /\ call' = [op |-> "struct_from_pairs", v |-> Pairs(cols)]
        /\ arr' = StructArrayFromPairs(Pairs(cols), junk)
        /\ ret' = NoRet

\* BinaryArray::from(list_array): the list array is moved into the
\* conversion.
BinaryFromList ==
    /\ call.op = "make_array"
    /\ IsArray(arr)
    /\ arr.layout = "ListArray"
    /\ call' = [op |-> "binary_from_list", v |-> arr]
    /\ arr' = BinaryArrayFromList(arr)
    /\ ret' = NoRet

\* Indices an accessor is called with: the logical range and one beyond.
Indices == 0..(arr.data.len)

Returned(op, i, out) ==
    /\ ret' = [op |-> op, i |-> i, out |-> out]
    /\ UNCHANGED <<call, arr>>

ReadLen == IsArray(arr) /\ Returned("len", 0, Array_len(arr))

ReadOffset == IsArray(arr) /\ Returned("offset", 0, Array_offset(arr))

ReadNullCount == IsArray(arr) /\ Returned("null_count", 0, Array_null_count(arr))

ReadIsValid ==
    /\ IsArray(arr)
    /\ \E i \in 0..(arr.data.len - 1) :
        /\ IsSome(arr.data.null_bitmap) => i < 8 * Len(Unwrap(arr.data.null_bitmap).bytes)
        /\ Returned("is_valid", i, Array_is_valid(arr, i))

ReadIsNull ==
    /\ IsArray(arr)
    /\ \E i \in 0..(arr.data.len - 1) :
        /\ IsSome(arr.data.null_bitmap) => i < 8 * Len(Unwrap(arr.data.null_bitmap).bytes)
        /\ Returned("is_null", i, Array_is_null(arr, i))

ReadValue ==
    /\ IsArray(arr)
    /\ arr.layout = "PrimitiveArray"
    /\ \E i \in Indices, junk \in JunkVals :
        Returned("value", i,
                 IF arr.ty = "Boolean"
                 THEN Boolean_value(arr, i, junk)
                 ELSE Primitive_value(arr, i, junk))

ReadValueOffset ==
    /\ IsArray(arr)
    /\ arr.layout \in {"ListArray", "BinaryArray"}
    /\ \E i \in Indices, junk \in JunkVals :
        Returned("value_offset", i,
                 IF arr.layout = "ListArray"
                 THEN List_value_offset(arr, i, junk)
                 ELSE Binary_value_offset(arr, i, junk))

ReadValueLength ==
    /\ IsArray(arr)
    /\ arr.layout \in {"ListArray", "BinaryArray"}
    /\ \E i \in Indices, junk \in JunkVals :
        Returned("value_length", i,
                 IF arr.layout = "ListArray"
                 THEN List_value_length(arr, i, junk)
                 ELSE Binary_value_length(arr, i, junk))

ReadBinaryValue ==
    /\ IsArray(arr)
    /\ arr.layout = "BinaryArray"
    /\ \E i \in Indices, junk \in JunkVals :
        Returned("value", i, Binary_value(arr, i, junk))

ReadGetString ==
    /\ IsArray(arr)
    /\ arr.layout = "BinaryArray"
    /\ \E i \in Indices, junk \in JunkVals :
        Returned("get_string", i, Binary_get_string(arr, i, junk))

ReadValueSlice ==
    /\ IsArray(arr)
    /\ arr.layout = "PrimitiveArray"
    /\ arr.ty \in NumericTags
    /\ \E offset \in Indices, len \in 0..MaxLen, junk \in JunkVals :
        /\ ret' = [op |-> "value_slice", i |-> offset, len |-> len,
                    out |-> Primitive_value_slice(arr, offset, len, junk)]
        /\ UNCHANGED <<call, arr>>

ReadColumn ==
    /\ IsArray(arr)
    /\ arr.layout = "StructArray"
    /\ \E pos \in 0..Len(arr.boxed_fields) :
        Returned("column", pos, Struct_column(arr, pos))

ReadValueAsDatetime ==
    /\ call.op = "temporal_from_vec"
    /\ IsArray(arr)
    /\ \E i \in Indices, junk \in JunkVals :
        Returned("value_as_datetime", i, value_as_datetime(arr, i, junk))

Next ==
    \/ MakeArray
    \/ FromVecOption
    \/ BooleanFromVecOptionCall
    \/ BooleanNewCall
    \/ StructFromPairs
    \/ BinaryFromList
    \/ ReadLen
    \/ ReadOffset
    \/ ReadNullCount
    \/ ReadIsValid
    \/ ReadIsNull
    \/ ReadValue
    \/ ReadValueOffset
    \/ ReadValueLength
    \/ ReadBinaryValue
    \/ ReadGetString
    \/ ReadValueSlice
    \/ TemporalFrom
    \/ ReadValueAsDatetime
    \/ ReadColumn
    \/ BinaryFromVec

Spec == Init /\ [][Next]_vars

(***************************************************************************)
(* Concurrent readers: an array is constructed, then shared by threads     *)
(* that each call one accessor.  A trait accessor clones the Arc of the    *)
(* data container, reads through it and drops it; a value accessor reads   *)
(* through the array's own reference and raw pointer.  ret holds the       *)
(* strong count of the container and the position of every thread.         *)
(***************************************************************************)
NumThreads == 2

Threads == 1..NumThreads

\* Arrays the threads share: one of each layout, all reads in their buffers.
SharedContainers ==
    {ArrayDataBuild(T("Int32"), 2, None, None, 1,
                    <<NativeBuffer("Int32", <<1, -1, 1>>)>>, <<>>),
     ArrayDataBuild(T("Boolean"), 2, None, Some(BufferFrom(<<2>>)), 0,
                    <<BufferFrom(<<2>>)>>, <<>>),
     ArrayDataBuild(T("Utf8"), 2, None, None, 0,
                    <<NativeBuffer("Int32", <<0, 2, 2>>), BufferFrom(<<104, 105>>)>>, <<>>),
     ArrayDataBuild(List(T("Int32")), 1, None, None, 0,
                    <<NativeBuffer("Int32", <<0, 2>>)>>, <<Int32Data(<<1, 2>>)>>),
     ArrayDataBuild(Struct(<<T("Int32")>>), 2, None, None, 0, <<>>, <<Int32Data(<<1, 2>>)>>)}

\* Arc::clone and the drop of an Arc, on the strong count.
\* Mutant: a clone that does not count itself.
ArcClone_Uncounted(strong) == strong

ArcClone(strong) == strong + 1

ArcDrop(strong) == strong - 1

\* The accessors of the Array trait go through data(), a clone of the Arc.
ClonesData(op) == op \in {"offset", "null_count", "is_valid", "is_null"}

\* The accessor calls a thread may make on an array.
AccessorCalls(a) ==
    {<<op, 0>> : op \in {"offset", "null_count"}}
    \cup {<<op, i>> : op \in {"is_valid", "is_null"}, i \in 0..(a.data.len - 1)}
    \cup (IF a.layout \in {"PrimitiveArray", "BinaryArray"}
          THEN {<<"value", i>> : i \in 0..(a.data.len - 1)}
          ELSE {})
    \cup (IF a.layout \in {"ListArray", "BinaryArray"}
          THEN {<<op, i>> : op \in {"value_offset", "value_length"}, i \in 0..(a.data.len - 1)}
          ELSE {})

\* What the accessor returns.
Accessor(a, op, i) ==
    CASE op = "offset" -> Array_offset(a)
      [] op = "null_count" -> Array_null_count(a)
      [] op = "is_valid" -> Array_is_valid(a, i)
      [] op = "is_null" -> Array_is_null(a, i)
      [] op = "value" ->
            IF a.layout = "BinaryArray" THEN Binary_value(a, i, 0)
            ELSE IF a.ty = "Boolean" THEN Boolean_value(a, i, 0)
            ELSE Primitive_value(a, i, 0)
      [] op = "value_offset" ->
            IF a.layout = "ListArray" THEN List_value_offset(a, i, 0)
            ELSE Binary_value_offset(a, i, 0)
      [] op = "value_length" ->
            IF a.layout = "ListArray" THEN List_value_length(a, i, 0)
            ELSE Binary_value_length(a, i, 0)

\* The constructing thread builds the array and hands it to the readers.
Spawn ==
    /\ call = NoCall
    /\ \E data \in SharedContainers :
        /\ call' = [op |-> "make_array", data |-> data]
        /\ arr' = make_array(data, 0)
        /\ ret' = [op |-> "threads", strong |-> 1,
                    th |-> [t \in Threads |-> [pc |-> "idle"]]]

ThreadCall(t) ==
    /\ ret.op = "threads"
    /\ ret.th[t].pc = "idle"
    /\ \E c \in AccessorCalls(arr) :
        ret' = [ret EXCEPT !.th[t] = [pc |-> "called", op |-> c[1], i |-> c[2]]]
    /\ UNCHANGED <<call, arr>>

ThreadClone(t) ==
    /\ ret.op = "threads"
    /\ ret.th[t].pc = "called"
    /\ ClonesData(ret.th[t].op)
    /\ ret' = [ret EXCEPT !.strong = ArcClone(@), !.th[t].pc = "cloned"]
    /\ UNCHANGED <<call, arr>>

ThreadRead(t) ==
    /\ ret.op = "threads"
    /\ \/ ret.th[t].pc = "cloned"
       \/ ret.th[t].pc = "called" /\ ~ClonesData(ret.th[t].op)
    /\ ret' = [ret EXCEPT !.th[t] =
                    [pc |-> IF ClonesData(ret.th[t].op) THEN "read" ELSE "done",
                     op |-> ret.th[t].op, i |-> ret.th[t].i,
                     out |-> Accessor(arr, ret.th[t].op, ret.th[t].i)]]
    /\ UNCHANGED <<call, arr>>

ThreadDrop(t) ==
    /\ ret.op = "threads"
    /\ ret.th[t].pc = "read"
    /\ ret' = [ret EXCEPT !.strong = ArcDrop(@), !.th[t].pc = "done"]
    /\ UNCHANGED <<call, arr>>

NextConc ==
    \/ Spawn
    \/ \E t \in Threads : ThreadCall(t)
    \/ \E t \in Threads : ThreadClone(t)
    \/ \E t \in Threads : ThreadRead(t)
    \/ \E t \in Threads : ThreadDrop(t)

SpecConc == Init /\ [][NextConc]_vars

(***************************************************************************)
(* Properties.                                                             *)
(***************************************************************************)
SupportedTags == PrimitiveTags \cup {"Utf8", "List", "Struct"}

\* The layout the dispatch table gives a tag.
LayoutOf(tag) ==
    CASE tag \in PrimitiveTags -> "PrimitiveArray"
      [] tag = "Utf8" -> "BinaryArray"
      [] tag = "List" -> "ListArray"
      [] tag = "Struct" -> "StructArray"

\* Element k of a buffer read as a native value of the tag.
ElementAt(tag, buffer, k) ==
    FromBytes(tag, SubSeq(buffer.bytes, k * SizeOf(tag) + 1, (k + 1) * SizeOf(tag)))

HasElement(tag, buffer, k) == (k + 1) * SizeOf(tag) <= Len(buffer.bytes)

\* Buffers and children of a container are valid for its tag.
RECURSIVE ValidContainer(_)
ValidContainer(d) ==
    LET tag == d.data_type.tag
    IN CASE tag \in PrimitiveTags ->
              /\ Len(d.buffers) = 1
              /\ d.buffers[1].addr % SizeOf(tag) = 0
         [] tag = "Utf8" ->
              /\ Len(d.buffers) = 2
              /\ d.buffers[1].addr % 4 = 0
         [] tag = "List" ->
              /\ Len(d.buffers) = 1
              /\ Len(d.child_data) = 1
              /\ ValidContainer(d.child_data[1])
              /\ d.buffers[1].addr % 4 = 0
              /\ HasElement("Int32", d.buffers[1], d.len)
              /\ ElementAt("Int32", d.buffers[1], 0) = 0
              /\ ElementAt("Int32", d.buffers[1], d.len) = d.child_data[1].len
         [] tag = "Struct" ->
              \A k \in DOMAIN d.child_data : ValidContainer(d.child_data[k])
         [] OTHER -> FALSE

FactoryCall == call.op = "make_array"

\* C1: for a container of a supported tag with valid buffers and children,
\* make_array returns an array of the layout of the tag: Boolean and each
\* numeric tag give the PrimitiveArray of that very type, Utf8 a
\* BinaryArray, List(e) a ListArray whatever e is, Struct a StructArray.
C1_FactoryDispatch ==
    FactoryCall =>
        LET tag == call.data.data_type.tag
        IN /\ ValidContainer(call.data) => IsArray(arr)
           /\ IsArray(arr) =>
                /\ tag \in SupportedTags
                /\ arr.layout = LayoutOf(tag)
                /\ arr.layout = "PrimitiveArray" => arr.ty = tag

C1_Witness ==
    /\ FactoryCall
    /\ call.data.data_type = List(List(T("Int32")))
    /\ IsArray(arr)
    /\ arr.layout = "ListArray"
    /\ arr.values.layout = "ListArray"

\* C2 as stated: len(), null_count() and offset() of every array that
\* make_array returns, StructArray included, are the length, null count
\* and offset recorded on the originating container.
C2_Original ==
    (FactoryCall /\ IsArray(arr)) =>
        /\ (ret.op = "len" /\ ~IsPanic(ret.out)) => ret.out = Ok(call.data.len, FALSE)
        /\ ret.op = "null_count" => ret.out = Ok(call.data.null_count, FALSE)
        /\ ret.op = "offset" => ret.out = Ok(call.data.offset, FALSE)

\* The length a container's array reports: the recorded one, except that
\* a struct passes the question on to its first child.
RECURSIVE ReportedLen(_)
ReportedLen(d) ==
    IF d.data_type.tag = "Struct" /\ d.child_data # <<>>
    THEN ReportedLen(d.child_data[1])
    ELSE d.len

\* ... which a struct without children cannot do.
RECURSIVE HasReportedLen(_)
HasReportedLen(d) ==
    d.data_type.tag = "Struct" =>
        (d.child_data # <<>> /\ HasReportedLen(d.child_data[1]))

\* C2 amended: null_count() and offset() of every array that make_array
\* returns are those of the container; len() is the container's length
\* for the four layouts other than StructArray, while the len() of a
\* StructArray is the len() of its first field array, whatever length
\* the struct's container records (and fails when there is no field).
C2_Amended ==
    (FactoryCall /\ IsArray(arr)) =>
        /\ (ret.op = "len" /\ arr.layout # "StructArray") =>
                ret.out = Ok(call.data.len, FALSE)
        /\ (ret.op = "len" /\ arr.layout = "StructArray") =>
                IF HasReportedLen(call.data)
                THEN ret.out = Ok(ReportedLen(call.data), FALSE)
                ELSE IsPanic(ret.out)
        /\ ret.op = "null_count" => ret.out = Ok(call.data.null_count, FALSE)
        /\ ret.op = "offset" => ret.out = Ok(call.data.offset, FALSE)

C2_Witness ==
    /\ FactoryCall
    /\ IsArray(arr)
    /\ arr.layout = "StructArray"
    /\ Len(arr.boxed_fields) = 2
    /\ arr.boxed_fields[1].data.len # arr.boxed_fields[2].data.len
    /\ call.data.len # arr.boxed_fields[1].data.len
    /\ ret.op = "len"
    /\ ret.out = Ok(arr.boxed_fields[1].data.len, FALSE)

\* C3: make_array panics with "Unexpected data type" for every container
\* whose tag is not Boolean, a numeric tag, Utf8, List or Struct; it
\* returns no array for such a tag.
C3_UnsupportedTagPanics ==
    (FactoryCall /\ call.data.data_type.tag \notin SupportedTags) =>
        arr = Panic("Unexpected data type")

C3_Witness ==
    /\ FactoryCall
    /\ call.data.data_type = Timestamp("Nanosecond")
    /\ Len(call.data.buffers) = 1
    /\ arr = Panic("Unexpected data type")

NoneCount(vec) == Cardinality({k \in DOMAIN vec : vec[k] = None})

\* C4: an array built from a sequence d of n optional native values has
\* len() = n, offset() = 0, null_count() = the number of None entries,
\* and for every i < n: is_valid(i) exactly when d[i] is Some, is_null(i)
\* the negation, and value(i) = v when d[i] = Some(v).
C4_RoundTrip ==
    call.op = "from_vec_option" =>
        /\ IsArray(arr)
        /\ arr.layout = "PrimitiveArray"
        /\ arr.ty = call.ty
        /\ ret.op = "len" => ret.out = Ok(Len(call.vec), FALSE)
        /\ ret.op = "offset" => ret.out = Ok(0, FALSE)
        /\ ret.op = "null_count" => ret.out = Ok(NoneCount(call.vec), FALSE)
        /\ ret.op = "is_valid" => ret.out = Ok(call.vec[ret.i + 1] # None, FALSE)
        /\ ret.op = "is_null" => ret.out = Ok(call.vec[ret.i + 1] = None, FALSE)
        /\ (ret.op = "value" /\ ret.i < Len(call.vec) /\ call.vec[ret.i + 1] # None) =>
                ret.out = Ok(call.vec[ret.i + 1][1], FALSE)

C4_Witness ==
    /\ call.op = "from_vec_option"
    /\ call.ty = "Int64"
    /\ call.vec = <<None, Some(-1)>>
    /\ arr.data.null_count = 1
    /\ ret.op = "value"
    /\ ret.i = 1
    /\ ret.out = Ok(-1, FALSE)

IsBooleanArray(a) == IsArray(a) /\ a.layout = "PrimitiveArray" /\ a.ty = "Boolean"

\* Bit k of a byte: the one of value 1 << k.
BitSet(byte, k) == (byte \div Pow2(k)) % 2 = 1

\* C5: for a BooleanArray with logical offset 0 and no nulls, for every
\* i < len(), value(i) is true exactly when bit (i mod 8) of byte
\* (i div 8) of the value buffer is set; for bytes [0x48, 0x02] and
\* length 10, value(i) is true exactly for i in {3, 6, 9}.
C5_BooleanBits ==
    (/\ IsBooleanArray(arr)
     /\ arr.data.offset = 0
     /\ arr.data.null_count = 0
     /\ ret.op = "value"
     /\ ret.i < arr.data.len
     /\ ret.i \div 8 < Len(arr.data.buffers[1].bytes)) =>
        /\ ret.out = Ok(BitSet(arr.data.buffers[1].bytes[(ret.i \div 8) + 1], ret.i % 8), FALSE)
        /\ (arr.data.buffers[1].bytes = <<72, 2>> /\ arr.data.len = 10) =>
                ret.out = Ok(ret.i \in {3, 6, 9}, FALSE)

C5_Witness ==
    /\ IsBooleanArray(arr)
    /\ arr.data.offset = 0
    /\ arr.data.null_count = 0
    /\ arr.data.len = 10
    /\ arr.data.buffers[1].bytes = <<72, 2>>
    /\ ret.op = "value"
    /\ ret.i = 9
    /\ ret.out = Ok(TRUE, FALSE)

IsNumericArray(a) == IsArray(a) /\ a.layout = "PrimitiveArray" /\ a.ty \in NumericTags

\* C6: with logical offset o, numeric value(i) is the raw buffer element
\* at index i + o, and ListArray/BinaryArray value_offset(i) is
\* offsets[o + i] and value_length(i) is offsets[o + i + 1] -
\* offsets[o + i], for every i for which these positions lie inside the
\* buffer.
C6_OffsetComposes ==
    IsArray(arr) =>
        LET o == arr.data.offset
            i == ret.i
            b == arr.data.buffers[1]
        IN /\ (IsNumericArray(arr) /\ ret.op = "value" /\ HasElement(arr.ty, b, i + o)) =>
                ret.out = Ok(ElementAt(arr.ty, b, i + o), FALSE)
           /\ (/\ arr.layout \in {"ListArray", "BinaryArray"}
               /\ ret.op = "value_offset"
               /\ HasElement("Int32", b, o + i)) =>
                ret.out = Ok(ElementAt("Int32", b, o + i), FALSE)
           /\ (/\ arr.layout \in {"ListArray", "BinaryArray"}
               /\ ret.op = "value_length"
               /\ HasElement("Int32", b, o + i + 1)) =>
                ret.out = Ok(ElementAt("Int32", b, o + i + 1) - ElementAt("Int32", b, o + i),
                             FALSE)

C6_Witness ==
    /\ IsNumericArray(arr)
    /\ arr.ty = "Int16"
    /\ arr.data.offset = 1
    /\ arr.data.buffers[1] = NativeBuffer("Int16", <<1, -1>>)
    /\ ret.op = "value"
    /\ ret.i = 0
    /\ ret.out = Ok(-1, FALSE)

\* C7 as stated: for a BooleanArray with logical offset o and length n
\* over a value buffer of at least o + n bits, value(i) returns bit
\* (i + o) of the buffer, and does not fail, for every 0 <= i < n.
C7_BooleanOffset ==
    (/\ IsBooleanArray(arr)
     /\ arr.data.offset + arr.data.len <= 8 * Len(arr.data.buffers[1].bytes)
     /\ ret.op = "value"
     /\ ret.i < arr.data.len) =>
        LET bit == ret.i + arr.data.offset
        IN ret.out = Ok(BitSet(arr.data.buffers[1].bytes[(bit \div 8) + 1], bit % 8), FALSE)

IsPrimitiveTag(tag) == tag \in PrimitiveTags

\* C8: construction of a layout from a container panics whenever the
\* buffer count or child count is not the one the layout requires, be it
\* too few or too many: exactly 1 buffer for numeric and boolean arrays,
\* exactly 1 buffer and exactly 1 child for list arrays, exactly 2
\* buffers for binary/text arrays.
C8_CountsChecked ==
    FactoryCall =>
        LET d == call.data
            tag == d.data_type.tag
        IN /\ (IsPrimitiveTag(tag) /\ Len(d.buffers) # 1) =>
                arr = Panic("PrimitiveArray data should contain a single buffer only (values buffer)")
           /\ (tag = "List" /\ Len(d.buffers) # 1) =>
                arr = Panic("ListArray data should contain a single buffer only (value offsets)")
           /\ (tag = "List" /\ Len(d.buffers) = 1 /\ Len(d.child_data) # 1) =>
                arr = Panic("ListArray should contain a single child array (values array)")
           /\ (tag = "Utf8" /\ Len(d.buffers) # 2) =>
                arr = Panic("BinaryArray data should contain 2 buffers only (offsets and values)")

C8_Witness ==
    /\ FactoryCall
    /\ call.data.data_type = T("UInt16")
    /\ Len(call.data.buffers) = 2
    /\ call.data.buffers[1].addr = 0
    /\ IsPanic(arr)

\* A list container with logical offset 0, one aligned offsets buffer and
\* one valid child.
ListCase(d) ==
    /\ d.data_type.tag = "List"
    /\ d.offset = 0
    /\ Len(d.buffers) = 1
    /\ d.buffers[1].addr % 4 = 0
    /\ Len(d.child_data) = 1
    /\ ValidContainer(d.child_data[1])

\* C9: ListArray construction from such a container panics with "offsets
\* do not start at zero" whenever the first offset is not 0, and with
\* "inconsistent offsets buffer and values array" whenever the first
\* offset is 0 and the offset at position len differs from the child
\* array's length.
C9_ListOffsetsRejected ==
    (FactoryCall /\ ListCase(call.data)) =>
        LET d == call.data
            b == d.buffers[1]
        IN /\ (HasElement("Int32", b, 0) /\ ElementAt("Int32", b, 0) # 0) =>
                arr = Panic("offsets do not start at zero")
           /\ (/\ HasElement("Int32", b, d.len)
               /\ ElementAt("Int32", b, 0) = 0
               /\ ElementAt("Int32", b, d.len) # d.child_data[1].len) =>
                arr = Panic("inconsistent offsets buffer and values array")

C9_Witness ==
    /\ FactoryCall
    /\ ListCase(call.data)
    /\ call.data.len = 2
    /\ call.data.buffers[1] = NativeBuffer("Int32", <<0, 2, 0>>)
    /\ call.data.child_data[1].len = 2
    /\ arr = Panic("inconsistent offsets buffer and values array")

IsListArray(a) == IsArray(a) /\ a.layout = "ListArray"

\* C10 as stated: for every ListArray that construction returns, with
\* any logical offset o and length n, value_offset(0) = 0 and
\* value_offset(n) = values().len(), value_offset applying the logical
\* offset.
C10_Original ==
    (IsListArray(arr) /\ ret.op = "value_offset" /\ ~ret.out.oob) =>
        /\ ret.i = 0 => ret.out.val = 0
        /\ ret.i = arr.data.len => ret.out.val = arr.values.data.len

\* C10 amended: for every ListArray that construction returns, with any
\* logical offset o and length n over an offsets buffer of at least
\* n + 1 entries, the raw offsets (logical offset not applied) satisfy
\* offsets[0] = 0 and offsets[n] = the length recorded on the child
\* container; so value_offset(0) = 0 and value_offset(n) =
\* values().data().len() when o = 0.
C10_Amended ==
    (IsListArray(arr) /\ HasElement("Int32", arr.data.buffers[1], arr.data.len)) =>
        /\ ElementAt("Int32", arr.data.buffers[1], 0) = 0
        /\ ElementAt("Int32", arr.data.buffers[1], arr.data.len) = arr.values.data.len
        /\ (arr.data.offset = 0 /\ ret.op = "value_offset") =>
            /\ ret.i = 0 => ret.out = Ok(0, FALSE)
            /\ ret.i = arr.data.len => ret.out = Ok(arr.values.data.len, FALSE)

C10_Witness ==
    /\ IsListArray(arr)
    /\ arr.data.offset = 0
    /\ arr.data.len = 2
    /\ arr.data.buffers[1] = NativeBuffer("Int32", <<0, -1, 2>>)
    /\ ret.op = "value_offset"
    /\ ret.i = 2
    /\ ret.out = Ok(2, FALSE)

\* C11 as stated: construction of a binary/text array from a container
\* (two buffers, aligned offsets) rejects an offsets buffer whose first
\* entry is not 0 and one whose entry at position len differs from the
\* payload length, the same as list construction does.
C11_BinaryOffsetsRejected ==
    (/\ FactoryCall
     /\ call.data.data_type.tag = "Utf8"
     /\ Len(call.data.buffers) = 2
     /\ call.data.buffers[1].addr % 4 = 0) =>
        LET d == call.data
            b == d.buffers[1]
        IN /\ (HasElement("Int32", b, 0) /\ ElementAt("Int32", b, 0) # 0) =>
                IsPanic(arr)
           /\ (/\ HasElement("Int32", b, d.len)
               /\ ElementAt("Int32", b, 0) = 0
               /\ ElementAt("Int32", b, d.len) # Len(d.buffers[2].bytes)) =>
                IsPanic(arr)

\* The alignment of the native type of a fixed-width tag, in bytes.
NativeAlignment(tag) ==
    CASE tag \in {"Boolean", "Int8", "UInt8"} -> 1
      [] tag \in {"Int16", "UInt16"} -> 2
      [] tag \in {"Int32", "UInt32", "Float32"} -> 4
      [] tag \in {"Int64", "UInt64", "Float64"} -> 8

\* C12: construction panics with "memory is not aligned" for a primitive
\* array whose value buffer does not start at a multiple of the native
\* alignment of the element type (a boolean array never does, one byte
\* being enough), for a list array whose offsets buffer does not start at
\* a multiple of 4, and for a binary/text array whose offsets buffer does
\* not start at a multiple of 4.
C12_AlignmentChecked ==
    FactoryCall =>
        LET d == call.data
            tag == d.data_type.tag
        IN /\ (/\ IsPrimitiveTag(tag)
               /\ Len(d.buffers) = 1
               /\ d.buffers[1].addr % NativeAlignment(tag) # 0) =>
                arr = Panic("memory is not aligned")
           /\ (tag = "Boolean" /\ Len(d.buffers) = 1) => IsArray(arr)
           /\ (/\ tag = "List"
               /\ Len(d.buffers) = 1
               /\ Len(d.child_data) = 1
               /\ ValidContainer(d.child_data[1])
               /\ d.buffers[1].addr % 4 # 0) =>
                arr = Panic("memory is not aligned")
           /\ (tag = "Utf8" /\ Len(d.buffers) = 2 /\ d.buffers[1].addr % 4 # 0) =>
                arr = Panic("memory is not aligned")

C12_Witness ==
    /\ FactoryCall
    /\ call.data.data_type.tag = "Utf8"
    /\ Len(call.data.buffers) = 2
    /\ call.data.buffers[1].addr = 1
    /\ arr = Panic("memory is not aligned")

IsBinaryArray(a) == IsArray(a) /\ a.layout = "BinaryArray"

\* The payload span of element i of a text container lies inside its
\* buffers: both offsets entries exist and 0 <= start <= end <= payload
\* length.
SpanInside(d, i) ==
    /\ HasElement("Int32", d.buffers[1], d.offset + i + 1)
    /\ 0 <= ElementAt("Int32", d.buffers[1], d.offset + i)
    /\ ElementAt("Int32", d.buffers[1], d.offset + i)
            <= ElementAt("Int32", d.buffers[1], d.offset + i + 1)
    /\ ElementAt("Int32", d.buffers[1], d.offset + i + 1) <= Len(d.buffers[2].bytes)

\* The payload bytes in [offsets[o + i], offsets[o + i + 1]).
SpanBytes(d, i) ==
    SubSeq(d.buffers[2].bytes,
           ElementAt("Int32", d.buffers[1], d.offset + i) + 1,
           ElementAt("Int32", d.buffers[1], d.offset + i + 1))

C14_OnlyBinaryChecks ==
    IsArray(arr) =>
        /\ (arr.layout = "PrimitiveArray" /\ ret.op \in {"value", "value_slice"}) =>
                ~IsPanic(ret.out)
        /\ (/\ arr.layout \in {"ListArray", "BinaryArray"}
            /\ ret.op \in {"value_offset", "value_length"}) =>
                ~IsPanic(ret.out)
        /\ (IsBinaryArray(arr) /\ ret.op \in {"value", "get_string"}
                               /\ ret.i >= arr.data.len) =>
                IsPanic(ret.out)

\* C15 as stated: for every array that construction returns, of any
\* layout, length n and logical offset o, and every i < n, value(i),
\* value_offset(i) and value_length(i) read only positions inside the
\* buffer the raw pointer points into.
C15_ReadsInsideBuffer ==
    (/\ IsArray(arr)
     /\ ret.op \in {"value", "value_offset", "value_length"}
     /\ ret.i < arr.data.len
     /\ ~IsPanic(ret.out)) =>
        ~ret.out.oob

\* C16: construction of a StructArray from a non-empty list of (field,
\* column) pairs, every column having a len(), panics with "all child
\* arrays of a StructArray must have the same length" whenever the len()
\* of some column differs from that of the first column, and returns the
\* struct array of these columns when all have the same len().
C16_StructPairsLengths ==
    (/\ call.op = "struct_from_pairs"
     /\ call.v # <<>>
     /\ \A k \in DOMAIN call.v : HasReportedLen(call.v[k][2].data)) =>
        IF \E k \in DOMAIN call.v :
                ReportedLen(call.v[k][2].data) # ReportedLen(call.v[1][2].data)
        THEN arr = Panic("all child arrays of a StructArray must have the same length")
        ELSE /\ IsArray(arr)
             /\ arr.layout = "StructArray"
             /\ arr.boxed_fields = [k \in DOMAIN call.v |-> call.v[k][2]]

C16_Witness ==
    /\ call.op = "struct_from_pairs"
    /\ Len(call.v) = 2
    /\ call.v[1][2].layout = "StructArray"
    /\ call.v[1][2].data.len = 0
    /\ ReportedLen(call.v[1][2].data) = 2
    /\ call.v[2][2].layout = "BinaryArray"
    /\ IsArray(arr)
    /\ ret.op = "len"
    /\ ret.out = Ok(2, FALSE)

\* C17: construction of a StructArray from a container does not reject
\* child containers of unequal lengths, and len() of the struct array is
\* the len() of its first field array, whatever length the struct's own
\* container records and whatever the lengths of the other fields.
C17_StructLenFirstField ==
    (FactoryCall /\ call.data.data_type.tag = "Struct") =>
        /\ (\A k \in DOMAIN call.data.child_data : ValidContainer(call.data.child_data[k])) =>
                /\ IsArray(arr)
                /\ Len(arr.boxed_fields) = Len(call.data.child_data)
        /\ (/\ IsArray(arr)
            /\ ret.op = "len"
            /\ call.data.child_data # <<>>
            /\ HasReportedLen(call.data.child_data[1])) =>
                ret.out = Ok(ReportedLen(call.data.child_data[1]), FALSE)

C17_Witness ==
    /\ FactoryCall
    /\ call.data.data_type.tag = "Struct"
    /\ call.data.len = 1
    /\ Len(call.data.child_data) = 2
    /\ call.data.child_data[1].len = 2
    /\ call.data.child_data[2].len = 0
    /\ IsArray(arr)
    /\ ret.op = "len"
    /\ ret.out = Ok(2, FALSE)

\* Logical element i of a list-of-bytes container lies inside its buffers.
ListElementInside(l, i) ==
    /\ HasElement("Int32", l.buffers[1], l.offset + i + 1)
    /\ 0 <= ElementAt("Int32", l.buffers[1], l.offset + i)
    /\ ElementAt("Int32", l.buffers[1], l.offset + i)
            <= ElementAt("Int32", l.buffers[1], l.offset + i + 1)
    /\ ElementAt("Int32", l.buffers[1], l.offset + i + 1)
            <= Len(l.child_data[1].buffers[1].bytes)

\* The bytes of logical element i of a list-of-bytes container.
ListElementBytes(l, i) ==
    SubSeq(l.child_data[1].buffers[1].bytes,
           ElementAt("Int32", l.buffers[1], l.offset + i) + 1,
           ElementAt("Int32", l.buffers[1], l.offset + i + 1))

\* C18 as stated: the BinaryArray converted from a list-of-u8 array of any
\* length and logical offset, with or without a null bitmap, has 2
\* buffers and no children, the len() and null_count() of the list array,
\* its validity at every index, and for every i < len() its value(i),
\* get_string(i), value_offset(i) and value_length(i) are those of a text
\* array built directly from the logical elements of the list array.
C18_ConversionLossless ==
    (call.op = "binary_from_list" /\ IsArray(arr)) =>
        LET l == call.v.data
            i == ret.i
        IN /\ Len(arr.data.buffers) = 2
           /\ arr.data.child_data = <<>>
           /\ ret.op = "len" => ret.out = Ok(l.len, FALSE)
           /\ ret.op = "null_count" => ret.out = Ok(l.null_count, FALSE)
           /\ ret.op = "is_valid" => ret.out = Ok(DataIsValid(l, i), FALSE)
           /\ (/\ ret.op \in {"value", "get_string", "value_offset", "value_length"}
               /\ i < l.len
               /\ \A k \in 0..i : ListElementInside(l, k)) =>
                /\ ret.op = "value" => ret.out = Ok(ListElementBytes(l, i), FALSE)
                /\ ret.op = "get_string" =>
                        ret.out = Ok([vec |-> ListElementBytes(l, i)], FALSE)
                /\ ret.op = "value_length" =>
                        ret.out = Ok(Len(ListElementBytes(l, i)), FALSE)
                /\ ret.op = "value_offset" =>
                        ret.out = Ok(ElementAt("Int32", l.buffers[1], l.offset + i)
                                        - ElementAt("Int32", l.buffers[1], l.offset),
                                     FALSE)

\* C19: the conversion of a ListArray into a BinaryArray succeeds only
\* when the child container has no child containers and its type is
\* UInt8: a child with children panics with the "list array of u8 values"
\* message, whatever its type, and a child without children of another
\* type with the "mismatched data types" message.
C19_ConversionRejected ==
    call.op = "binary_from_list" =>
        LET child == call.v.data.child_data[1]
        IN /\ child.child_data # <<>> =>
                arr = Panic("BinaryArray can only be created from list array of u8 values (i.e. List<PrimitiveArray<u8>>).")
           /\ (child.child_data = <<>> /\ child.data_type # T("UInt8")) =>
                arr = Panic("BinaryArray can only be created from List<u8> arrays, mismatched data types.")
           /\ (child.child_data = <<>> /\ child.data_type = T("UInt8")) =>
                /\ IsArray(arr)
                /\ arr.layout = "BinaryArray"

C19_Witness ==
    /\ call.op = "binary_from_list"
    /\ call.v.data.child_data[1].data_type.tag = "Struct"
    /\ call.v.data.child_data[1].child_data # <<>>
    /\ arr = Panic("BinaryArray can only be created from list array of u8 values (i.e. List<PrimitiveArray<u8>>).")

\* What an accessor returns on the array of a container when it is the
\* only call made, for reads inside the buffers.
AloneResult(d, op, i) ==
    LET tag == d.data_type.tag
        b == d.buffers[1]
        o == d.offset
    IN CASE op = "offset" -> o
         [] op = "null_count" -> d.null_count
         [] op = "is_valid" ->
                IF d.null_bitmap = None THEN TRUE
                ELSE BitSet(d.null_bitmap[1].bytes[(i \div 8) + 1], i % 8)
         [] op = "is_null" ->
                IF d.null_bitmap = None THEN FALSE
                ELSE ~BitSet(d.null_bitmap[1].bytes[(i \div 8) + 1], i % 8)
         [] op = "value" /\ tag = "Boolean" -> BitSet(b.bytes[((i + o) \div 8) + 1], (i + o) % 8)
         [] op = "value" /\ tag = "Utf8" -> SpanBytes(d, i)
         [] op = "value" /\ tag \in NumericTags -> ElementAt(tag, b, i + o)
         [] op = "value_offset" -> ElementAt("Int32", b, o + i)
         [] op = "value_length" ->
                ElementAt("Int32", b, o + i + 1) - ElementAt("Int32", b, o + i)

\* Threads that hold a clone of the container's Arc.
Holders == {t \in Threads : ret.th[t].pc \in {"cloned", "read"}}

ScaleOf(dt) ==
    CASE dt = Date64 -> 1000
      [] dt = Timestamp("Second") -> 1
      [] dt = Timestamp("Millisecond") -> 1000
      [] dt = Timestamp("Microsecond") -> 1000000
      [] dt = Timestamp("Nanosecond") -> 1000000000

\* C21 as stated: for every integer v stored in a Timestamp or Date64
\* array, negative ones included, value_as_datetime returns a datetime of
\* seconds and sub-second remainder whose timestamp in the unit of the
\* array is v; a Date32 v decodes to v * 86400 seconds; Time32, Time64
\* and interval arrays decode to no value, without failing.
C21_TemporalRoundTrip ==
    (/\ call.op = "temporal_from_vec"
     /\ ret.op = "value_as_datetime"
     /\ ret.i < Len(call.vec)) =>
        LET dt == call.data_type
            v == call.vec[ret.i + 1]
        IN /\ ~IsPanic(ret.out)
           /\ dt.tag \in {"Timestamp", "Date64"} =>
                /\ ret.out.val # None
                /\ ret.out.val[1].nsecs < 1000000000
                /\ ret.out.val[1].secs * ScaleOf(dt)
                        + ret.out.val[1].nsecs \div (1000000000 \div ScaleOf(dt)) = v
           /\ dt.tag = "Date32" =>
                ret.out.val = Some([kind |-> "datetime", secs |-> v * 86400, nsecs |-> 0])
           /\ dt.tag \in {"Time32", "Time64", "Interval"} => ret.out.val = None

\* C22: for a numeric array with logical offset o, value_slice(s, l)
\* returns exactly the l raw buffer elements at indices o + s to
\* o + s + l - 1 (where the buffer holds them), and checks neither s nor
\* l against the array length: a call with s + l beyond len() signals no
\* failure.
C22_ValueSliceUnchecked ==
    (IsNumericArray(arr) /\ ret.op = "value_slice") =>
        /\ ~IsPanic(ret.out)
        /\ Len(ret.out.val) = ret.len
        /\ (ret.len > 0 =>
                HasElement(arr.ty, arr.data.buffers[1], arr.data.offset + ret.i + ret.len - 1)) =>
                ret.out = Ok([k \in 1..ret.len |->
                                ElementAt(arr.ty, arr.data.buffers[1],
                                          arr.data.offset + ret.i + k - 1)],
                             FALSE)

C22_Witness ==
    /\ IsNumericArray(arr)
    /\ arr.ty = "Int16"
    /\ arr.data.len = 1
    /\ arr.data.offset = 1
    /\ arr.data.buffers[1] = NativeBuffer("Int16", <<1, -1, 1>>)
    /\ ret.op = "value_slice"
    /\ ret.i = 0
    /\ ret.len = 2
    /\ ret.out = Ok(<<-1, 1>>, FALSE)

\* C23: construction from a sequence of n optional values gives every
\* slot, null or not, a place in the value buffer: a numeric value buffer
\* holds exactly n slots of the native width, slot i holding v when the
\* input is Some(v) and zero bytes when it is None; boolean value bit i is
\* set exactly when the input is Some(true); in both cases the validity
\* bitmap has ceil(n / 8) bytes, bit i set exactly when input i is Some,
\* and every padding bit is zero.
C23_EverySlotWritten ==
    (call.op = "from_vec_option" /\ IsArray(arr)) =>
        LET n == Len(call.vec)
            vb == arr.data.buffers[1]
            nb == arr.data.null_bitmap[1].bytes
        IN /\ arr.data.null_bitmap # None
           /\ Len(nb) = (n + 7) \div 8
           /\ \A i \in 0..(8 * Len(nb) - 1) :
                BitSet(nb[(i \div 8) + 1], i % 8) <=> (i < n /\ call.vec[i + 1] # None)
           /\ call.ty = "Boolean" =>
                /\ Len(vb.bytes) = (n + 7) \div 8
                /\ \A i \in 0..(8 * Len(vb.bytes) - 1) :
                        BitSet(vb.bytes[(i \div 8) + 1], i % 8)
                            <=> (i < n /\ call.vec[i + 1] = Some(TRUE))
           /\ call.ty # "Boolean" =>
                /\ Len(vb.bytes) = n * SizeOf(call.ty)
                /\ \A i \in 0..(n - 1) :
                        IF call.vec[i + 1] = None
                        THEN \A k \in (i * SizeOf(call.ty) + 1)..((i + 1) * SizeOf(call.ty)) :
                                vb.bytes[k] = 0
                        ELSE ElementAt(call.ty, vb, i) = call.vec[i + 1][1]

C23_Witness ==
    /\ call.op = "from_vec_option"
    /\ call.ty = "Boolean"
    /\ call.vec = <<Some(FALSE), None, Some(TRUE)>>
    /\ arr.data.buffers[1].bytes = <<4>>
    /\ arr.data.null_bitmap[1].bytes = <<5>>

IsStructArray(a) == IsArray(a) /\ a.layout = "StructArray"

\* The containers a struct array was given for its fields, in order.
GivenContainers ==
    IF call.op = "struct_from_pairs"
    THEN [k \in DOMAIN call.v |-> call.v[k][2].data]
    ELSE call.data.child_data

\* C24: a StructArray has exactly one field array per child container,
\* in declared order: built from a container with k child containers or
\* from k (field, column) pairs, column(i).data() is the i-th child
\* container, or the container of the i-th column, for every i < k, and
\* the field array is the one the factory builds for that container.
C24_StructColumns ==
    (IsStructArray(arr) /\ call.op \in {"make_array", "struct_from_pairs"}) =>
        /\ Len(arr.boxed_fields) = Len(GivenContainers)
        /\ arr.data.child_data = GivenContainers
        /\ (ret.op = "column" /\ ret.i < Len(GivenContainers)) =>
                /\ ~IsPanic(ret.out)
                /\ ret.out.val.data = GivenContainers[ret.i + 1]
                /\ \E junk \in JunkVals :
                        ret.out.val = make_array(GivenContainers[ret.i + 1], junk)

C24_Witness ==
    /\ IsStructArray(arr)
    /\ call.op = "struct_from_pairs"
    /\ Len(call.v) = 2
    /\ call.v[1][2].data.data_type # call.v[2][2].data.data_type
    /\ ret.op = "column"
    /\ ret.i = 1
    /\ ret.out = Ok(call.v[2][2], FALSE)

\* The total length of the first k elements of a sequence of strings.
RECURSIVE SumLen(_, _)
SumLen(v, k) == IF k = 0 THEN 0 ELSE SumLen(v, k - 1) + Len(v[k])

\* C25: a binary/text array built from a sequence s_0..s_{n-1} of strings
\* or byte slices has len() = n, null_count() = 0 and an offsets table of
\* n + 1 entries that starts at 0, never decreases and ends at the total
\* payload length; for every i < n, value_offset(i) is the sum of the
\* lengths of s_0..s_{i-1}, value_length(i) the length of s_i and
\* value(i) = s_i, empty elements included.
C25_BinaryFromVec ==
    call.op = "binary_from_vec" =>
        LET n == Len(call.vec)
            offs == arr.data.buffers[1]
        IN /\ IsBinaryArray(arr)
           /\ arr.data.offset = 0
           /\ Len(offs.bytes) = 4 * (n + 1)
           /\ ElementAt("Int32", offs, 0) = 0
           /\ \A k \in 0..(n - 1) :
                ElementAt("Int32", offs, k) <= ElementAt("Int32", offs, k + 1)
           /\ ElementAt("Int32", offs, n) = Len(arr.data.buffers[2].bytes)
           /\ ElementAt("Int32", offs, n) = SumLen(call.vec, n)
           /\ ret.op = "len" => ret.out = Ok(n, FALSE)
           /\ ret.op = "null_count" => ret.out = Ok(0, FALSE)
           /\ (ret.op = "value_offset" /\ ret.i < n) =>
                ret.out = Ok(SumLen(call.vec, ret.i), FALSE)
           /\ (ret.op = "value_length" /\ ret.i < n) =>
                ret.out = Ok(Len(call.vec[ret.i + 1]), FALSE)
           /\ (ret.op = "value" /\ ret.i < n) =>
                ret.out = Ok(call.vec[ret.i + 1], FALSE)

C25_Witness ==
    /\ call.op = "binary_from_vec"
    /\ call.vec = <<(<<104, 105>>), (<<>>), (<<104>>)>>
    /\ ret.op = "value"
    /\ ret.i = 2
    /\ ret.out = Ok(<<104>>, FALSE)

\* C26: list construction validates the offsets at the two endpoints
\* only: a container with one aligned offsets buffer of at least len + 1
\* entries, one valid child, first offset 0 and offset at position len
\* equal to the child length is constructed whatever the offsets in
\* between are, negative or decreasing ones included, and value_length(i)
\* is then the plain difference of consecutive offsets, negative or not.
C26_EndpointsOnly ==
    (/\ FactoryCall
     /\ call.data.data_type.tag = "List"
     /\ Len(call.data.buffers) = 1
     /\ call.data.buffers[1].addr % 4 = 0
     /\ Len(call.data.child_data) = 1
     /\ ValidContainer(call.data.child_data[1])
     /\ HasElement("Int32", call.data.buffers[1], call.data.len)
     /\ ElementAt("Int32", call.data.buffers[1], 0) = 0
     /\ ElementAt("Int32", call.data.buffers[1], call.data.len)
            = call.data.child_data[1].len) =>
        /\ IsListArray(arr)
        /\ (/\ ret.op = "value_length"
            /\ HasElement("Int32", call.data.buffers[1], call.data.offset + ret.i + 1)) =>
                ret.out = Ok(ElementAt("Int32", call.data.buffers[1], call.data.offset + ret.i + 1)
                                - ElementAt("Int32", call.data.buffers[1], call.data.offset + ret.i),
                             FALSE)

C26_Witness ==
    /\ FactoryCall
    /\ IsListArray(arr)
    /\ arr.data.len = 2
    /\ arr.data.offset = 0
    /\ arr.data.buffers[1] = NativeBuffer("Int32", <<0, 2, 0>>)
    /\ ret.op = "value_length"
    /\ ret.i = 1
    /\ ret.out = Ok(-2, FALSE)

\* C27 as stated: len() answers without failing on every StructArray
\* that construction returns, the struct array of a container without
\* child containers included.
C27_StructLenTotal ==
    (IsStructArray(arr) /\ ret.op = "len") => ~IsPanic(ret.out)

\* C28 as stated: a StructArray built from (field, column) pairs wraps a
\* container whose recorded length is the common length of the columns,
\* so that data().len() = len() = column(0).len().
C28_PairsContainerLength ==
    (/\ call.op = "struct_from_pairs"
     /\ IsStructArray(arr)
     /\ HasReportedLen(call.v[1][2].data)) =>
        /\ arr.data.len = ReportedLen(call.v[1][2].data)
        /\ ret.op = "len" => ret.out = Ok(arr.data.len, FALSE)

\* What building the child of a list container may give.
ChildOutcomes(d) == {make_array(d.child_data[1], junk) : junk \in JunkVals}

\* C29: ListArray construction runs its checks in a fixed order and
\* reports the first that fails: buffer count, child count, construction
\* of the child array, 4-byte alignment of the offsets buffer, first
\* offset 0, final offset equal to the child length; a misaligned offsets
\* buffer is reported as such and never as an offsets error.
C29_ListCheckOrder ==
    (FactoryCall /\ call.data.data_type.tag = "List") =>
        LET d == call.data
            b == d.buffers[1]
        IN IF Len(d.buffers) # 1
           THEN arr = Panic("ListArray data should contain a single buffer only (value offsets)")
           ELSE IF Len(d.child_data) # 1
           THEN arr = Panic("ListArray should contain a single child array (values array)")
           ELSE IF \A c \in ChildOutcomes(d) : IsPanic(c)
           THEN arr \in ChildOutcomes(d)
           ELSE IF \E c \in ChildOutcomes(d) : IsPanic(c)
           THEN TRUE
           ELSE IF b.addr % 4 # 0
           THEN arr = Panic("memory is not aligned")
           ELSE IF ~HasElement("Int32", b, 0) \/ ~HasElement("Int32", b, d.len)
           THEN TRUE
           ELSE IF ElementAt("Int32", b, 0) # 0
           THEN arr = Panic("offsets do not start at zero")
           ELSE IF ElementAt("Int32", b, d.len) # d.child_data[1].len
           THEN arr = Panic("inconsistent offsets buffer and values array")
           ELSE IsListArray(arr)

C29_Witness ==
    /\ FactoryCall
    /\ call.data.data_type.tag = "List"
    /\ Len(call.data.buffers) = 1
    /\ call.data.buffers[1].addr = 1
    /\ Len(call.data.child_data) = 1
    /\ call.data.child_data[1].data_type = Date32
    /\ arr = Panic("Unexpected data type")

\* The containers below a container, at any depth.
RECURSIVE Descendants(_)
Descendants(d) ==
    UNION {{d.child_data[k]} \cup Descendants(d.child_data[k]) : k \in DOMAIN d.child_data}

\* Every array nested in an array is an array.
RECURSIVE AllBuilt(_)
AllBuilt(a) ==
    /\ IsArray(a)
    /\ a.layout = "ListArray" => AllBuilt(a.values)
    /\ a.layout = "StructArray" => \A k \in DOMAIN a.boxed_fields : AllBuilt(a.boxed_fields[k])

====
